---- MODULE Spec2Model ----
(***************************************************************************)
(* TaaToIbo: the geometric extraction and enhancement pipeline.            *)
(*                                                                         *)
(*   lib/imageProcessor  cropRegion, applyPerspectiveCorrection,           *)
(*                       enhanceDesign, extractColorPalette                *)
(*   /api/process        POST, the orchestrator of one request             *)
(*                                                                         *)
(* A normalized coordinate is the rational n / Den, held as its numerator  *)
(* n.  A raster is a record that says how it was produced from the source  *)
(* image; the pixel contents of a decoded raster are the library's and     *)
(* enter the model as the sampled thumbnail `data`.                        *)
(***************************************************************************)
EXTENDS Integers, Sequences, FiniteSets, TLC

VARIABLES
    pc,                 \* position of the call / of the request handler
    imgWidth,           \* width of the decoded source image
    imgHeight,          \* height of the decoded source image
    decodable,          \* how far sharp can decode the request's bytes:
                        \* "full", "header" (dimensions only) or "none"
    extractionApproach, \* detection.extractionApproach
    boundingBox,        \* detection.boundingBox
    perspectivePoints,  \* detection.perspectivePoints
    adjustedPoints,     \* request's adjustedPoints, <<>> when absent
    extractCall,        \* the extraction function called and its region argument
    extractArea,        \* the clamped rectangle the extraction function computed
    processedBuffer,    \* the raster (or the thrown error) of the last stage
    data,               \* sampled thumbnail pixels, row-major <<r, g, b>>
    topN,               \* extractColorPalette's topN
    colorPalette,       \* extractColorPalette's result
    response,           \* the route's HTTP response
    trace,              \* the stages the route has called, each with its input
    requests,           \* the /api/process requests in flight side by side
    limiter,            \* the middleware: its clock, rateLimitMap and last answer
    store,              \* the client's useAppStore state
    hook,               \* the client's useExtraction state and its calls
    canvas,             \* removeBackground's canvas and image data
    detector,           \* one detectPrintRegion call: its loop, timer and model calls
    upload,             \* one /api/extract request and its answer
    session             \* useExtraction: isLoading, lastImageRef and its calls

vars == <<pc, imgWidth, imgHeight, decodable, extractionApproach, boundingBox,
          perspectivePoints, adjustedPoints, extractCall, extractArea,
          processedBuffer, data, topN, colorPalette, response,
          trace, requests, limiter, store, hook, canvas, detector, upload,
          session>>

\* the state outside one /api/process request
others == <<requests, limiter, store, hook, canvas, detector, upload, session>>

\* that state at rest
NoRequests == <<>>
NoLimiter == [used |-> FALSE]
NoStore == [used |-> FALSE]
NoHook == [used |-> FALSE]
NoSession == [used |-> FALSE]
NoCanvas == [used |-> FALSE]
NoDetector == [used |-> FALSE]
NoUpload == [used |-> FALSE]

OthersIdle ==
    /\ requests = NoRequests
    /\ limiter = NoLimiter
    /\ store = NoStore
    /\ hook = NoHook
    /\ canvas = NoCanvas
    /\ detector = NoDetector
    /\ upload = NoUpload
    /\ session = NoSession

----------------------------------------------------------------------------
(* Bounds *)

\* denominator of the normalized coordinates: n stands for n / Den
Den == 2
\* how far past 1.0 a coordinate passed straight to cropRegion may lie
OverRange == 1
\* largest image width and height
MaxDim == 4
\* largest number of sampled thumbnail pixels
MaxPixels == 5
\* largest topN
MaxTopN == 3

MaxNum == Den + OverRange

----------------------------------------------------------------------------
(* Arithmetic *)

Min(a, b) == IF a <= b THEN a ELSE b
Max(a, b) == IF a >= b THEN a ELSE b

\* Math.round(num / den), den > 0: the nearest integer, halves towards +infinity
Round(num, den) == (2 * num + den) \div (2 * den)

\* Math.round(normalized * dimension)
Denormalize(n, dimension) == Round(n * dimension, Den)

----------------------------------------------------------------------------
(* Rasters *)

NoArea == [left |-> 0, top |-> 0, width |-> 0, height |-> 0]

\* the request image: its dimensions, and whether its pixel data decodes
SourceRaster(w, h, intact) ==
    [kind |-> "source", area |-> NoArea, width |-> w, height |-> h, enhanced |-> FALSE,
     message |-> "", intact |-> intact]

\* a rejected promise of the image library
Thrown(message) ==
    [kind |-> "error", area |-> NoArea, width |-> 0, height |-> 0, enhanced |-> FALSE,
     message |-> message, intact |-> FALSE]

NoRaster ==
    [kind |-> "none", area |-> NoArea, width |-> 0, height |-> 0, enhanced |-> FALSE,
     message |-> "", intact |-> FALSE]

IsThrown(raster) == raster.kind = "error"

\* sharp(buffer).extract(area): the pixel data must decode, and libvips rejects
\* an area that is empty or not inside the image
SharpExtract(buffer, area) ==
    IF ~buffer.intact THEN Thrown("Input buffer has corrupt header or pixel data")
    ELSE IF \/ area.left < 0 \/ area.top < 0
       \/ area.width <= 0 \/ area.height <= 0
       \/ area.left + area.width > buffer.width
       \/ area.top + area.height > buffer.height
    THEN Thrown("extract_area: bad extract area")
    ELSE [kind |-> "extract", area |-> area, width |-> area.width,
          height |-> area.height, enhanced |-> FALSE, message |-> "", intact |-> TRUE]

\* .resize(width, height, {fit: "fill"}): sharp rejects a width or height that
\* is not a positive integer
SharpResize(buffer, width, height) ==
    IF IsThrown(buffer) THEN buffer
    ELSE IF width <= 0 \/ height <= 0
    THEN Thrown("Expected positive integer for width or height")
    ELSE [buffer EXCEPT !.kind = "resize", !.width = width, !.height = height]

----------------------------------------------------------------------------
(* cropRegion *)

\* Math.max(0, Math.min(left, imgWidth - 1))
ClampStart(start, dimension) == Max(0, Min(start, dimension - 1))

ClampExtentUnclamped(extent, dimension, clampedStart) == extent

ClampExtentToEdge(extent, dimension, clampedStart) == dimension - clampedStart

\* Math.min(width, imgWidth - clampedLeft)
ClampExtent(extent, dimension, clampedStart) == Min(extent, dimension - clampedStart)

\* the rectangle cropRegion hands to extract
cropArea(box, w, h) ==
    LET left == Denormalize(box.x, w)
        top == Denormalize(box.y, h)
        width == Denormalize(box.width, w)
        height == Denormalize(box.height, h)
        clampedLeft == ClampStart(left, w)
        clampedTop == ClampStart(top, h)
        clampedWidth == ClampExtent(width, w, clampedLeft)
        clampedHeight == ClampExtent(height, h, clampedTop)
    IN  [left |-> clampedLeft, top |-> clampedTop,
         width |-> clampedWidth, height |-> clampedHeight]

cropRegion(buffer, box, w, h) == SharpExtract(buffer, cropArea(box, w, h))

----------------------------------------------------------------------------
(* applyPerspectiveCorrection *)

\* Math.pow(q[0] - p[0], 2) + Math.pow(q[1] - p[1], 2)
SquaredDistance(p, q) == (q[1] - p[1]) * (q[1] - p[1]) + (q[2] - p[2]) * (q[2] - p[2])

\* Math.round(Math.sqrt(n)) for an integer n >= 0: the r with (r - 1/2)^2 <= n < (r + 1/2)^2
RoundSqrt(n) ==
    IF n = 0 THEN 0 ELSE CHOOSE r \in 1..n : r * r - r < n /\ n <= r * r + r

\* points.map(([px, py]) => [Math.round(px * imgWidth), Math.round(py * imgHeight)])
DenormalizePoints(points, w, h) ==
    [i \in 1..4 |-> <<Denormalize(points[i][1], w), Denormalize(points[i][2], h)>>]

outputSizeOfFirstEdges(q) ==
    [width |-> RoundSqrt(SquaredDistance(q[1], q[2])),
     height |-> RoundSqrt(SquaredDistance(q[1], q[4]))]

\* outputWidth and outputHeight of the pixel quad <<tl, tr, br, bl>>
outputSize(q) ==
    LET tl == q[1]
        tr == q[2]
        br == q[3]
        bl == q[4]
    IN  [width |-> RoundSqrt(Max(SquaredDistance(tl, tr), SquaredDistance(bl, br))),
         height |-> RoundSqrt(Max(SquaredDistance(tl, bl), SquaredDistance(tr, br)))]

quadAreaOfAllPoints(q, w, h) ==
    LET minX == Min(Min(q[1][1], q[2][1]), Min(q[3][1], q[4][1]))
        minY == Min(Min(q[1][2], q[2][2]), Min(q[3][2], q[4][2]))
        maxX == Max(Max(q[1][1], q[2][1]), Max(q[3][1], q[4][1]))
        maxY == Max(Max(q[1][2], q[2][2]), Max(q[3][2], q[4][2]))
        extractLeft == Max(0, minX)
        extractTop == Max(0, minY)
    IN  [left |-> extractLeft, top |-> extractTop,
         width |-> Min(maxX - minX, w - extractLeft),
         height |-> Min(maxY - minY, h - extractTop)]

\* extractLeft, extractTop, extractWidth, extractHeight of the pixel quad
quadArea(q, w, h) ==
    LET tl == q[1]
        tr == q[2]
        br == q[3]
        bl == q[4]
        minX == Min(tl[1], bl[1])
        minY == Min(tl[2], tr[2])
        maxX == Max(tr[1], br[1])
        maxY == Max(bl[2], br[2])
        extractLeft == Max(0, minX)
        extractTop == Max(0, minY)
    IN  [left |-> extractLeft, top |-> extractTop,
         width |-> Min(maxX - minX, w - extractLeft),
         height |-> Min(maxY - minY, h - extractTop)]

SkipCorrectionOnNegativeOnly(area) == area.width < 0 \/ area.height < 0

\* if (extractWidth <= 0 || extractHeight <= 0) return buffer
SkipCorrection(area) == area.width <= 0 \/ area.height <= 0

applyPerspectiveCorrection(buffer, points, w, h) ==
    LET q == DenormalizePoints(points, w, h)
        out == outputSize(q)
        area == quadArea(q, w, h)
    IN  IF SkipCorrection(area) THEN buffer
        ELSE SharpResize(SharpExtract(buffer, area), out.width, out.height)

----------------------------------------------------------------------------
(* enhanceDesign *)

\* sharpen, linear, modulate, png: the pixel data must decode
enhanceDesign(buffer) ==
    IF ~buffer.intact THEN Thrown("Input buffer has corrupt header or pixel data")
    ELSE [buffer EXCEPT !.enhanced = TRUE]

----------------------------------------------------------------------------
(* extractColorPalette *)

\* the largest value of an 8-bit channel of the raw thumbnail
MaxChannel == 255
\* width of a quantization band
BandWidth == 16

QuantizeDown(channel) == (channel \div BandWidth) * BandWidth

\* Math.round(r / 16) * 16
Quantize(channel) == Round(channel, BandWidth) * BandWidth

HexDigits == <<"0", "1", "2", "3", "4", "5", "6", "7",
               "8", "9", "a", "b", "c", "d", "e", "f">>

\* n.toString(16), as the sequence of its characters
RECURSIVE ToString16(_)
ToString16(n) ==
    IF n < 16 THEN <<HexDigits[n + 1]>>
    ELSE ToString16(n \div 16) \o <<HexDigits[(n % 16) + 1]>>

\* s.padStart(targetLength, "0")
RECURSIVE PadStart(_, _)
PadStart(s, targetLength) ==
    IF Len(s) >= targetLength THEN s ELSE PadStart(<<"0">> \o s, targetLength)

\* `#${qr.toString(16).padStart(2, "0")}${qg...}${qb...}` of one pixel
HexOf(pixel) ==
    <<"#">> \o PadStart(ToString16(Quantize(pixel[1])), 2)
            \o PadStart(ToString16(Quantize(pixel[2])), 2)
            \o PadStart(ToString16(Quantize(pixel[3])), 2)

\* a Map<string, number> is the sequence of its entries in insertion order
MapHas(map, key) == \E i \in 1..Len(map) : map[i].key = key

\* colorCounts.get(hex) || 0
MapGet(map, key) ==
    IF MapHas(map, key)
    THEN map[CHOOSE i \in 1..Len(map) : map[i].key = key].value
    ELSE 0

\* colorCounts.set(hex, value): an existing key keeps its place
MapSet(map, key, value) ==
    IF MapHas(map, key)
    THEN [i \in 1..Len(map) |->
             IF map[i].key = key THEN [key |-> key, value |-> value] ELSE map[i]]
    ELSE Append(map, [key |-> key, value |-> value])

\* the loop over the sampled pixels
RECURSIVE CountColors(_, _)
CountColors(pixels, colorCounts) ==
    IF pixels = <<>> THEN colorCounts
    ELSE LET hex == HexOf(Head(pixels))
         IN  CountColors(Tail(pixels),
                         MapSet(colorCounts, hex, MapGet(colorCounts, hex) + 1))

InsertBeforeTies(sorted, entry) ==
    LET before == SelectSeq(sorted, LAMBDA e : e.value > entry.value)
        after == SelectSeq(sorted, LAMBDA e : e.value <= entry.value)
    IN  before \o <<entry>> \o after

\* where a stable sort by (a, b) => b[1] - a[1] puts the next entry: behind
\* every entry whose count is at least its own
InsertByCount(sorted, entry) ==
    LET before == SelectSeq(sorted, LAMBDA e : e.value >= entry.value)
        after == SelectSeq(sorted, LAMBDA e : e.value < entry.value)
    IN  before \o <<entry>> \o after

\* Array.from(colorCounts.entries()).sort((a, b) => b[1] - a[1])
RECURSIVE SortByCount(_, _)
SortByCount(entries, sorted) ==
    IF entries = <<>> THEN sorted
    ELSE SortByCount(Tail(entries), InsertByCount(sorted, Head(entries)))

SliceOneMore(s, end) == SubSeq(s, 1, Min(end + 1, Len(s)))

\* s.slice(0, end), end >= 0
Slice(s, end) == SubSeq(s, 1, Min(end, Len(s)))

extractColorPalette(pixels, n) ==
    LET colorCounts == CountColors(pixels, <<>>)
        ranked == Slice(SortByCount(colorCounts, <<>>), n)
    IN  [i \in 1..Len(ranked) |-> ranked[i].key]

----------------------------------------------------------------------------
(* Inputs *)

Dims == 1..MaxDim

\* boxes a caller of cropRegion may pass, in range or not
Boxes == [x : 0..MaxNum, y : 0..MaxNum, width : 0..MaxNum, height : 0..MaxNum]

InRange(n) == 0 <= n /\ n <= Den

BoxInRange(box) ==
    InRange(box.x) /\ InRange(box.y) /\ InRange(box.width) /\ InRange(box.height)

\* quadrilaterals with every coordinate in [0,1], in any shape
Points == (0..Den) \X (0..Den)
Quads == Points \X Points \X Points \X Points

\* sampled pixels: two of one band, a half-way value, a second and a third band
SamplePixels == {<<0, 0, 0>>, <<7, 0, 0>>, <<8, 0, 0>>, <<16, 32, 48>>, <<120, 136, 200>>}

RECURSIVE SeqsUpTo(_, _)
SeqsUpTo(S, n) ==
    IF n = 0 THEN {<<>>}
    ELSE LET shorter == SeqsUpTo(S, n - 1)
         IN  shorter \cup {Append(s, e) : s \in {t \in shorter : Len(t) = n - 1}, e \in S}

\* thumbnails: every short scan of the sample pixels, and every value of one channel
Thumbnails ==
    (SeqsUpTo(SamplePixels, MaxPixels) \ {<<>>})
        \cup {<<<<v, 0, 0>>>> : v \in 0..MaxChannel}
        \cup {<<<<0, v, 0>>>> : v \in 0..MaxChannel}
        \cup {<<<<0, 0, v>>>> : v \in 0..MaxChannel}

\* the request's image as sharp sees it
Source == SourceRaster(imgWidth, imgHeight, decodable = "full")

NoBox == [x |-> 0, y |-> 0, width |-> 0, height |-> 0]
NoPoints == <<>>
NoCall == [fn |-> "none", box |-> NoBox, points |-> NoPoints]
NoResponse ==
    [status |-> 0, success |-> FALSE, code |-> "", retryable |-> FALSE,
     width |-> 0, height |-> 0]

----------------------------------------------------------------------------
(* cropRegion called on its own *)

InitCrop ==
    /\ pc = "crop_call"
    /\ imgWidth \in Dims
    /\ imgHeight \in Dims
    /\ decodable = "full"
    /\ extractionApproach = "direct"
    /\ boundingBox \in Boxes
    /\ perspectivePoints = NoPoints
    /\ adjustedPoints = NoPoints
    /\ extractCall = NoCall
    /\ extractArea = NoArea
    /\ processedBuffer = NoRaster
    /\ data = <<>>
    /\ topN = 0
    /\ colorPalette = <<>>
    /\ response = NoResponse
    /\ trace = <<>>
    /\ OthersIdle

CropRegionCall ==
    /\ pc = "crop_call"
    /\ extractCall' = [fn |-> "cropRegion", box |-> boundingBox, points |-> NoPoints]
    /\ extractArea' = cropArea(boundingBox, imgWidth, imgHeight)
    /\ processedBuffer' =
           cropRegion(Source, boundingBox, imgWidth, imgHeight)
    /\ pc' = "crop_return"
    /\ UNCHANGED others
    /\ UNCHANGED trace
    /\ UNCHANGED <<imgWidth, imgHeight, decodable, extractionApproach, boundingBox,
                   perspectivePoints, adjustedPoints, data, topN, colorPalette, response>>

NextCrop == CropRegionCall

SpecCrop == InitCrop /\ [][NextCrop]_vars

----------------------------------------------------------------------------
(* C1: for every box with x, y, width, height in [0,1] and every image of  *)
(* at least 1x1, the rectangle cropRegion computes has 0 <= left,          *)
(* 0 <= top, width >= 0, height >= 0, left + width <= W, top + height <= H *)
C1_ClampedRectInsideImage ==
    (pc = "crop_return" /\ BoxInRange(boundingBox)) =>
        /\ 0 <= extractArea.left
        /\ 0 <= extractArea.top
        /\ extractArea.width >= 0
        /\ extractArea.height >= 0
        /\ extractArea.left + extractArea.width <= imgWidth
        /\ extractArea.top + extractArea.height <= imgHeight

\* a box that reaches past the right and bottom edges and was cut back
C1_Witness ==
    /\ pc = "crop_return"
    /\ BoxInRange(boundingBox)
    /\ Denormalize(boundingBox.x, imgWidth) + Denormalize(boundingBox.width, imgWidth)
           > imgWidth
    /\ Denormalize(boundingBox.y, imgHeight) + Denormalize(boundingBox.height, imgHeight)
           > imgHeight
    /\ extractArea.left + extractArea.width = imgWidth
    /\ extractArea.top + extractArea.height = imgHeight

(* C2: a box lying fully outside the image (x > 1) is clamped to a         *)
(* rectangle with width = 0 or height = 0, and the direct crop reports     *)
(* EmptyRegion instead of producing a crop                                 *)
C2_OutsideBoxIsEmpty ==
    (pc = "crop_return" /\ boundingBox.x > Den) =>
        /\ extractArea.width = 0 \/ extractArea.height = 0
        /\ IsThrown(processedBuffer)

----------------------------------------------------------------------------
(* applyPerspectiveCorrection called on its own *)

InitQuad ==
    /\ pc = "quad_call"
    /\ imgWidth \in Dims
    /\ imgHeight \in Dims
    /\ decodable = "full"
    /\ extractionApproach = "perspective-correct"
    /\ boundingBox = NoBox
    /\ perspectivePoints \in Quads
    /\ adjustedPoints = NoPoints
    /\ extractCall = NoCall
    /\ extractArea = NoArea
    /\ processedBuffer = NoRaster
    /\ data = <<>>
    /\ topN = 0
    /\ colorPalette = <<>>
    /\ response = NoResponse
    /\ trace = <<>>
    /\ OthersIdle

ApplyPerspectiveCorrectionCall ==
    /\ pc = "quad_call"
    /\ extractCall' = [fn |-> "applyPerspectiveCorrection", box |-> NoBox,
                       points |-> perspectivePoints]
    /\ extractArea' =
           quadArea(DenormalizePoints(perspectivePoints, imgWidth, imgHeight),
                    imgWidth, imgHeight)
    /\ processedBuffer' =
           applyPerspectiveCorrection(Source,
                                      perspectivePoints, imgWidth, imgHeight)
    /\ pc' = "quad_return"
    /\ UNCHANGED others
    /\ UNCHANGED trace
    /\ UNCHANGED <<imgWidth, imgHeight, decodable, extractionApproach, boundingBox,
                   perspectivePoints, adjustedPoints, data, topN, colorPalette, response>>

NextQuad == ApplyPerspectiveCorrectionCall

SpecQuad == InitQuad /\ [][NextQuad]_vars

----------------------------------------------------------------------------
(* C4: applyPerspectiveCorrection returns the input raster itself, with no *)
(* crop and no resize, whenever the clamped extraction rectangle of the    *)
(* quadrilateral has width <= 0 or height <= 0                             *)
C4_EmptyQuadReturnsInput ==
    (pc = "quad_return" /\ (extractArea.width <= 0 \/ extractArea.height <= 0)) =>
        processedBuffer = Source

\* a quad whose rectangle clamps to exactly zero width came back as the input
C4_Witness ==
    /\ pc = "quad_return"
    /\ extractArea.width = 0
    /\ extractArea.height > 0
    /\ processedBuffer = Source

(* C5: for every quadrilateral with all coordinates in [0,1] and every     *)
(* image of at least 1x1 the quad path raises no error: it returns the     *)
(* original raster or a resized crop at least 1 wide and 1 high            *)
C5_QuadPathNeverFails ==
    pc = "quad_return" =>
        \/ processedBuffer = Source
        \/ /\ processedBuffer.kind = "resize"
           /\ processedBuffer.width >= 1
           /\ processedBuffer.height >= 1

\* the quad [[0.1,0.1],[0.4,0.1],[0.4,0.3],[0.1,0.3]] on the 1000x800 image, in pixels
C14_Example ==
    outputSize(<<<<100, 80>>, <<400, 80>>, <<400, 240>>, <<100, 240>>>>)
        = [width |-> 300, height |-> 160]

(* C14: when the quad path applies correction the output is exactly        *)
(* round(max(|TL-TR|, |BL-BR|)) wide and round(max(|TL-BL|, |TR-BR|)) high *)
(* on the denormalized points; in the fallback path it has the original    *)
(* image's dimensions                                                      *)
C14_QuadOutputSize ==
    pc = "quad_return" =>
        LET q == DenormalizePoints(perspectivePoints, imgWidth, imgHeight)
            across == Max(SquaredDistance(q[1], q[2]), SquaredDistance(q[4], q[3]))
            down == Max(SquaredDistance(q[1], q[4]), SquaredDistance(q[2], q[3]))
            \* r is the integer nearest to the square root of n
            Nearest(r, n) == /\ (2 * r - 1) * (2 * r - 1) <= 4 * n
                             /\ 4 * n < (2 * r + 1) * (2 * r + 1)
        IN  /\ processedBuffer.kind = "resize" =>
                   /\ Nearest(processedBuffer.width, across)
                   /\ Nearest(processedBuffer.height, down)
            /\ processedBuffer.kind = "source" =>
                   /\ processedBuffer.width = imgWidth
                   /\ processedBuffer.height = imgHeight
            /\ processedBuffer.kind \in {"resize", "source", "error"}
            /\ C14_Example

\* a slanted quad: the longer of two unequal edges set the size
C14_Witness ==
    /\ pc = "quad_return"
    /\ processedBuffer.kind = "resize"
    /\ LET q == DenormalizePoints(perspectivePoints, imgWidth, imgHeight)
       IN  /\ SquaredDistance(q[1], q[2]) < SquaredDistance(q[4], q[3])
           /\ SquaredDistance(q[1], q[4]) > SquaredDistance(q[2], q[3])
           /\ processedBuffer.width * processedBuffer.width
                  # SquaredDistance(q[4], q[3])

(* C25: whenever the quad path applies correction, the cropped rectangle   *)
(* is left = min(TL.x, BL.x), top = min(TL.y, TR.y), width =               *)
(* min(max(TR.x, BR.x) - left, W - left), height = min(max(BL.y, BR.y) -   *)
(* top, H - top) on the denormalized points, and lies inside the image     *)
C25_QuadCropRectangle ==
    (pc = "quad_return" /\ processedBuffer.kind # "source") =>
        LET q == DenormalizePoints(perspectivePoints, imgWidth, imgHeight)
            left == IF q[1][1] <= q[4][1] THEN q[1][1] ELSE q[4][1]
            top == IF q[1][2] <= q[2][2] THEN q[1][2] ELSE q[2][2]
            right == IF q[2][1] >= q[3][1] THEN q[2][1] ELSE q[3][1]
            bottom == IF q[4][2] >= q[3][2] THEN q[4][2] ELSE q[3][2]
            width == IF right - left <= imgWidth - left THEN right - left
                     ELSE imgWidth - left
            height == IF bottom - top <= imgHeight - top THEN bottom - top
                      ELSE imgHeight - top
        IN  /\ extractArea = [left |-> left, top |-> top, width |-> width,
                              height |-> height]
            /\ processedBuffer.kind = "resize" => processedBuffer.area = extractArea
            /\ 0 <= extractArea.left
            /\ 0 <= extractArea.top
            /\ extractArea.width > 0
            /\ extractArea.height > 0
            /\ extractArea.left + extractArea.width <= imgWidth
            /\ extractArea.top + extractArea.height <= imgHeight

\* a corrected quad whose right-hand corners reach left of its left-hand ones
C25_Witness ==
    /\ pc = "quad_return"
    /\ processedBuffer.kind = "resize"
    /\ LET q == DenormalizePoints(perspectivePoints, imgWidth, imgHeight)
       IN  /\ q[3][1] < q[1][1]
           /\ q[3][1] < q[4][1]
           /\ extractArea.left > q[3][1]

----------------------------------------------------------------------------
(* extractColorPalette called on its own *)

InitPalette ==
    /\ pc = "palette_call"
    /\ imgWidth = 1
    /\ imgHeight = 1
    /\ decodable = "full"
    /\ extractionApproach = "direct"
    /\ boundingBox = NoBox
    /\ perspectivePoints = NoPoints
    /\ adjustedPoints = NoPoints
    /\ extractCall = NoCall
    /\ extractArea = NoArea
    /\ processedBuffer = NoRaster
    /\ data \in Thumbnails
    /\ topN \in 0..MaxTopN
    /\ colorPalette = <<>>
    /\ response = NoResponse
    /\ trace = <<>>
    /\ OthersIdle

ExtractColorPaletteCall ==
    /\ pc = "palette_call"
    /\ colorPalette' = extractColorPalette(data, topN)
    /\ pc' = "palette_return"
    /\ UNCHANGED others
    /\ UNCHANGED trace
    /\ UNCHANGED <<imgWidth, imgHeight, decodable, extractionApproach, boundingBox,
                   perspectivePoints, adjustedPoints, extractCall, extractArea,
                   processedBuffer, data, topN, response>>

NextPalette == ExtractColorPaletteCall

SpecPalette == InitPalette /\ [][NextPalette]_vars

----------------------------------------------------------------------------
(* Reading a palette entry back *)

DigitValue(ch) == CHOOSE d \in 0..15 : HexDigits[d + 1] = ch

IsHexDigit(ch) == \E d \in 0..15 : HexDigits[d + 1] = ch

RECURSIVE HexValue(_)
HexValue(s) ==
    IF s = <<>> THEN 0
    ELSE 16 * HexValue(SubSeq(s, 1, Len(s) - 1)) + DigitValue(s[Len(s)])

\* the characters a channel takes in its pixel's entry: two, or three once the
\* channel has left the last band below 256
ChannelChars(channel) == IF 2 * channel >= 2 * MaxChannel + 1 - BandWidth THEN 3 ELSE 2

\* the value written for channel c of the pixel in the entry of that pixel
WrittenChannel(entry, pixel, c) ==
    LET start == 2 + (IF c > 1 THEN ChannelChars(pixel[1]) ELSE 0)
                   + (IF c > 2 THEN ChannelChars(pixel[2]) ELSE 0)
    IN  HexValue(SubSeq(entry, start, start + ChannelChars(pixel[c]) - 1))

\* the colors of the thumbnail, their counts and where the scan met them first
QuantizedColors == {HexOf(data[i]) : i \in 1..Len(data)}
CountOf(hex) == Cardinality({i \in 1..Len(data) : HexOf(data[i]) = hex})
FirstSeen(hex) ==
    CHOOSE i \in 1..Len(data) :
        HexOf(data[i]) = hex /\ \A j \in 1..(i - 1) : HexOf(data[j]) # hex

RanksBefore(a, b) ==
    \/ CountOf(a) > CountOf(b)
    \/ CountOf(a) = CountOf(b) /\ FirstSeen(a) < FirstSeen(b)

----------------------------------------------------------------------------
(* C6: every channel value in 0..255 is written as exactly two hex digits, *)
(* so every palette entry is '#' followed by exactly six hex digits; 255   *)
(* and every value from 248 on give 'ff', never '100'                      *)
C6_EntriesAreSixHexDigits ==
    pc = "palette_return" =>
        \A i \in 1..Len(colorPalette) :
            /\ Len(colorPalette[i]) = 7
            /\ colorPalette[i][1] = "#"
            /\ \A k \in 2..Len(colorPalette[i]) : IsHexDigit(colorPalette[i][k])

(* C7: quantization rounds half up: a channel value v with v mod 16 = 8    *)
(* is written as the next higher multiple of 16 (8 as '10'), and every     *)
(* v < 248 as the multiple of 16 nearest to v                              *)
C7_QuantizationRoundsHalfUp ==
    (pc = "palette_return" /\ Len(data) = 1 /\ topN >= 1) =>
        /\ Len(colorPalette) = 1
        /\ \A c \in 1..3 :
               LET v == data[1][c]
                   q == WrittenChannel(colorPalette[1], data[1], c)
               IN  /\ v % 16 = 8 => q = v + 8
                   /\ v < 248 => /\ q % 16 = 0
                                 /\ q - v <= 8
                                 /\ v - q < 8
        /\ data[1] = <<8, 0, 0>> => SubSeq(colorPalette[1], 2, 3) = <<"1", "0">>

\* the value 8 came out as '10'
C7_Witness ==
    /\ pc = "palette_return"
    /\ data = <<<<8, 0, 0>>>>
    /\ colorPalette = <<(<<"#", "1", "0", "0", "0", "0", "0">>)>>

(* C8: extractColorPalette returns exactly min(N, U) entries, U the number *)
(* of distinct quantized colors sampled: never more than N, never padded,  *)
(* no color twice                                                          *)
C8_PaletteLength ==
    pc = "palette_return" =>
        /\ Len(colorPalette) = Min(topN, Cardinality(QuantizedColors))
        /\ \A i, j \in 1..Len(colorPalette) :
               i # j => colorPalette[i] # colorPalette[j]
        /\ \A i \in 1..Len(colorPalette) : colorPalette[i] \in QuantizedColors

\* more colors than asked for: the palette was cut to N
C8_Witness ==
    /\ pc = "palette_return"
    /\ topN >= 1
    /\ Cardinality(QuantizedColors) > topN
    /\ Len(data) > Cardinality(QuantizedColors)
    /\ Len(colorPalette) = topN

(* C9: the palette is ordered by count descending, colors of equal count   *)
(* in the order the row-major scan met them first; it is the head of that  *)
(* ranking, so the same raster always gives the same list                  *)
C9_PaletteOrder ==
    pc = "palette_return" =>
        /\ \A i, j \in 1..Len(colorPalette) :
               i < j => RanksBefore(colorPalette[i], colorPalette[j])
        /\ \A i \in 1..Len(colorPalette) :
               \A hex \in QuantizedColors :
                   (\A k \in 1..Len(colorPalette) : colorPalette[k] # hex)
                       => RanksBefore(colorPalette[i], hex)

\* two colors tie behind a more frequent one that the scan met last
C9_Witness ==
    /\ pc = "palette_return"
    /\ Len(colorPalette) = 3
    /\ CountOf(colorPalette[1]) > CountOf(colorPalette[2])
    /\ CountOf(colorPalette[2]) = CountOf(colorPalette[3])
    /\ FirstSeen(colorPalette[2]) < FirstSeen(colorPalette[3])
    /\ FirstSeen(colorPalette[3]) < FirstSeen(colorPalette[1])

----------------------------------------------------------------------------
(* lib/validators *)

\* z.number().min(0).max(1)
NormalizedSchema(n) == 0 <= n /\ n <= Den

boundingBoxSchema(box) ==
    /\ NormalizedSchema(box.x)
    /\ NormalizedSchema(box.y)
    /\ NormalizedSchema(box.width)
    /\ NormalizedSchema(box.height)

perspectivePointsSchema(points) ==
    /\ Len(points) = 4
    /\ \A i \in 1..4 : NormalizedSchema(points[i][1]) /\ NormalizedSchema(points[i][2])

AnyApproachSchema(approach) == TRUE

\* z.enum(["direct", "perspective-correct", "texture-remove"])
extractionApproachSchema(approach) ==
    approach \in {"direct", "perspective-correct", "texture-remove"}

\* processRequestSchema.safeParse(body).success
processRequestSchema(approach, box, points, adjusted) ==
    /\ extractionApproachSchema(approach)
    /\ boundingBoxSchema(box)
    /\ perspectivePointsSchema(points)
    /\ adjusted # NoPoints => perspectivePointsSchema(adjusted)

----------------------------------------------------------------------------
(* POST /api/process *)

\* the palette size the route asks for
RouteTopN == 5

ErrorResponse(status, code, retryable) ==
    [status |-> status, success |-> FALSE, code |-> code, retryable |-> retryable,
     width |-> 0, height |-> 0]

\* the catch block: any thrown error
CaughtResponse == ErrorResponse(500, "PROCESSING_ERROR", TRUE)

SelectDetectedPoints(adjusted, detected) == detected

\* adjustedPoints ?? detection.perspectivePoints
SelectPoints(adjusted, detected) == IF adjusted # NoPoints THEN adjusted ELSE detected

\* requests: boxes alike in both axes, and these quadrilaterals
RouteBoxes == {box \in Boxes : box.x = box.y /\ box.width = box.height}

RouteQuads ==
    { <<<<0, 0>>, <<Den, 0>>, <<Den, Den>>, <<0, Den>>>>,        \* the whole image
      <<<<0, 0>>, <<1, 0>>, <<1, 1>>, <<0, 1>>>>,                \* its first corner
      <<<<Den, 0>>, <<0, 0>>, <<0, Den>>, <<Den, Den>>>>,        \* mirrored
      <<<<0, 0>>, <<0, 0>>, <<Den, Den>>, <<Den, Den>>>>,        \* collapsed edges
      <<<<0, 0>>, <<MaxNum, 0>>, <<MaxNum, Den>>, <<0, Den>>>> } \* out of range

\* thumbnails of an enhanced raster
RouteThumbnails == SeqsUpTo(SamplePixels, 2) \ {<<>>}

Init ==
    /\ pc = "start"
    /\ decodable \in {"full", "header", "none"}
    /\ imgWidth \in IF decodable = "none" THEN {0} ELSE 0..MaxDim
    /\ imgHeight \in IF decodable = "none" THEN {0} ELSE 0..MaxDim
    /\ extractionApproach \in {"direct", "perspective-correct", "texture-remove", "warp"}
    /\ boundingBox \in RouteBoxes
    /\ perspectivePoints \in RouteQuads
    /\ adjustedPoints \in RouteQuads \cup {NoPoints}
    /\ extractCall = NoCall
    /\ extractArea = NoArea
    /\ processedBuffer = NoRaster
    /\ data = <<>>
    /\ topN = 0
    /\ colorPalette = <<>>
    /\ response = NoResponse
    /\ trace = <<>>
    /\ OthersIdle

\* request.json() and processRequestSchema.safeParse
ParseRequest ==
    /\ pc = "start"
    /\ IF processRequestSchema(extractionApproach, boundingBox, perspectivePoints,
                               adjustedPoints)
       THEN /\ pc' = "decode"
            /\ UNCHANGED response
       ELSE /\ pc' = "responded"
            /\ response' = ErrorResponse(400, "VALIDATION_ERROR", FALSE)
    /\ UNCHANGED others
    /\ UNCHANGED trace
    /\ UNCHANGED <<imgWidth, imgHeight, decodable, extractionApproach, boundingBox,
                   perspectivePoints, adjustedPoints, extractCall, extractArea,
                   processedBuffer, data, topN, colorPalette>>

\* sharp(imageBuffer).metadata() and the check of the dimensions
ReadMetadata ==
    /\ pc = "decode"
    /\ IF decodable = "none"
       THEN /\ pc' = "responded"
            /\ response' = CaughtResponse
       ELSE IF imgWidth = 0 \/ imgHeight = 0
       THEN /\ pc' = "responded"
            /\ response' = ErrorResponse(400, "INVALID_IMAGE", FALSE)
       ELSE /\ pc' = "extract"
            /\ UNCHANGED response
    /\ UNCHANGED others
    /\ UNCHANGED trace
    /\ UNCHANGED <<imgWidth, imgHeight, decodable, extractionApproach, boundingBox,
                   perspectivePoints, adjustedPoints, extractCall, extractArea,
                   processedBuffer, data, topN, colorPalette>>

\* the branch on detection.extractionApproach
Extract ==
    /\ pc = "extract"
    /\ LET points == SelectPoints(adjustedPoints, perspectivePoints)
           direct == extractionApproach = "direct"
           result == IF direct
                     THEN cropRegion(Source, boundingBox, imgWidth, imgHeight)
                     ELSE applyPerspectiveCorrection(Source, points, imgWidth, imgHeight)
       IN  /\ extractCall' =
                  IF direct
                  THEN [fn |-> "cropRegion", box |-> boundingBox, points |-> NoPoints]
                  ELSE [fn |-> "applyPerspectiveCorrection", box |-> NoBox,
                        points |-> points]
           /\ extractArea' =
                  IF direct
                  THEN cropArea(boundingBox, imgWidth, imgHeight)
                  ELSE quadArea(DenormalizePoints(points, imgWidth, imgHeight),
                                imgWidth, imgHeight)
           /\ processedBuffer' = result
           /\ IF IsThrown(result)
              THEN /\ pc' = "responded"
                   /\ response' = CaughtResponse
              ELSE /\ pc' = "enhance"
                   /\ UNCHANGED response
    /\ UNCHANGED others
    /\ trace' = Append(trace, [stage |-> "extract", input |-> Source])
    /\ UNCHANGED <<imgWidth, imgHeight, decodable, extractionApproach, boundingBox,
                   perspectivePoints, adjustedPoints, data, topN, colorPalette>>

EnhanceSkipped ==
    /\ pc = "enhance"
    /\ pc' = "palette"
    /\ UNCHANGED <<imgWidth, imgHeight, decodable, extractionApproach, boundingBox,
                   perspectivePoints, adjustedPoints, extractCall, extractArea,
                   processedBuffer, data, topN, colorPalette, response, trace>>
    /\ UNCHANGED others

\* processedBuffer = await enhanceDesign(processedBuffer)
Enhance ==
    /\ pc = "enhance"
    /\ processedBuffer' = enhanceDesign(processedBuffer)
    /\ IF IsThrown(processedBuffer')
       THEN /\ pc' = "responded"
            /\ response' = CaughtResponse
       ELSE /\ pc' = "palette"
            /\ UNCHANGED response
    /\ UNCHANGED others
    /\ trace' = Append(trace, [stage |-> "enhance", input |-> processedBuffer])
    /\ UNCHANGED <<imgWidth, imgHeight, decodable, extractionApproach, boundingBox,
                   perspectivePoints, adjustedPoints, extractCall, extractArea,
                   data, topN, colorPalette>>

\* the final metadata, extractColorPalette(processedBuffer, 5) and the response
Palette ==
    /\ pc = "palette"
    /\ \E thumbnail \in RouteThumbnails :
           /\ data' = thumbnail
           /\ topN' = RouteTopN
           /\ colorPalette' = extractColorPalette(thumbnail, RouteTopN)
    /\ response' = [status |-> 200, success |-> TRUE, code |-> "", retryable |-> FALSE,
                    width |-> processedBuffer.width, height |-> processedBuffer.height]
    /\ pc' = "responded"
    /\ UNCHANGED others
    /\ trace' = Append(trace, [stage |-> "palette", input |-> processedBuffer])
    /\ UNCHANGED <<imgWidth, imgHeight, decodable, extractionApproach, boundingBox,
                   perspectivePoints, adjustedPoints, extractCall, extractArea,
                   processedBuffer>>

Next == ParseRequest \/ ReadMetadata \/ Extract \/ Enhance \/ Palette

Spec == Init /\ [][Next]_vars

----------------------------------------------------------------------------
(* C3: in the direct path, whenever the clamped width or height is <= 0    *)
(* the call fails with the EmptyRegion error, an identity distinguishable  *)
(* from decode and encode failures, and produces no crop                   *)
C3_EmptyRegionIdentity ==
    (/\ pc = "responded"
     /\ extractCall.fn = "cropRegion"
     /\ (extractArea.width <= 0 \/ extractArea.height <= 0)) =>
        /\ response.success = FALSE
        /\ response.code = "EMPTY_REGION"
        /\ response.retryable = FALSE
        /\ IsThrown(processedBuffer)

(* C10: the route picks the extraction path from extractionApproach only:  *)
(* 'direct' crops by detection.boundingBox whatever the adjusted points    *)
(* are; 'perspective-correct' and 'texture-remove' run the quad path on    *)
(* adjustedPoints when the request carries them, else on                   *)
(* detection.perspectivePoints                                             *)
C10_PathFollowsApproach ==
    extractCall.fn # "none" =>
        /\ extractionApproach = "direct" =>
               /\ extractCall =
                      [fn |-> "cropRegion", box |-> boundingBox, points |-> NoPoints]
               /\ extractArea = cropArea(boundingBox, imgWidth, imgHeight)
        /\ extractionApproach \in {"perspective-correct", "texture-remove"} =>
               /\ extractCall.fn = "applyPerspectiveCorrection"
               /\ adjustedPoints # NoPoints => extractCall.points = adjustedPoints
               /\ adjustedPoints = NoPoints => extractCall.points = perspectivePoints
        /\ extractionApproach \in {"direct", "perspective-correct", "texture-remove"}

\* a texture-remove request whose adjusted points differ from the detected ones
C10_Witness ==
    /\ pc = "responded"
    /\ response.success
    /\ extractionApproach = "texture-remove"
    /\ adjustedPoints # NoPoints
    /\ adjustedPoints # perspectivePoints
    /\ extractCall.fn = "applyPerspectiveCorrection"
    /\ extractCall.points = adjustedPoints

----------------------------------------------------------------------------
(* The run of one request *)

StageOrder == <<"extract", "enhance", "palette">>

\* the stages called so far are the first ones of the order, each once
StagesArePrefix ==
    /\ Len(trace) <= Len(StageOrder)
    /\ \A i \in 1..Len(trace) : trace[i].stage = StageOrder[i]

RequestIsValid ==
    /\ extractionApproach \in {"direct", "perspective-correct", "texture-remove"}
    /\ BoxInRange(boundingBox)
    /\ \A i \in 1..4 : InRange(perspectivePoints[i][1]) /\ InRange(perspectivePoints[i][2])
    /\ adjustedPoints # NoPoints =>
           \A i \in 1..4 : InRange(adjustedPoints[i][1]) /\ InRange(adjustedPoints[i][2])

(* C11: a successful run calls extraction, then enhancement of the         *)
(* extraction result, then palette extraction (top 5) of the enhanced      *)
(* result, each once; a failing stage ends the run as failed at once, no   *)
(* later stage runs and none is retried                                    *)
C11_StagesOnceInOrder ==
    /\ StagesArePrefix
    /\ (pc = "responded" /\ response.success) =>
           /\ Len(trace) = 3
           /\ trace[1].input = Source
           /\ trace[2].input.kind \in {"source", "extract", "resize"}
           /\ ~trace[2].input.enhanced
           /\ trace[3].input = [trace[2].input EXCEPT !.enhanced = TRUE]
           /\ processedBuffer = trace[3].input
           /\ topN = RouteTopN
           /\ colorPalette = extractColorPalette(data, RouteTopN)
    /\ IsThrown(processedBuffer) =>
           /\ pc = "responded"
           /\ ~response.success
           /\ Len(trace) \in {1, 2}
           /\ colorPalette = <<>>
    /\ (pc = "responded" /\ ~response.success) =>
           /\ Len(trace) < 3
           /\ Len(trace) > 0 => IsThrown(processedBuffer)

\* a run that went through all three stages
C11_Witness ==
    /\ pc = "responded"
    /\ response.success
    /\ Len(trace) = 3
    /\ trace[2].input.kind = "resize"
    /\ Len(colorPalette) = 2

(* C12: bytes that cannot be decoded, or that decode to width 0 or height  *)
(* 0, fail the run with the non-retryable InvalidImage identity before any *)
(* extraction, enhancement or palette step                                 *)
C12_UndecodableIsInvalidImage ==
    (/\ pc = "responded"
     /\ RequestIsValid
     /\ (decodable = "none" \/ imgWidth = 0 \/ imgHeight = 0)) =>
        /\ response.code = "INVALID_IMAGE"
        /\ ~response.retryable
        /\ trace = <<>>

\* the 1000x800 image with the box {x: 0.1, y: 0.1, width: 0.3, height: 0.2}, in tenths
C13_Example ==
    /\ Round(1 * 1000, 10) = 100
    /\ Round(1 * 800, 10) = 80
    /\ ClampExtent(Round(3 * 1000, 10), 1000, ClampStart(Round(1 * 1000, 10), 1000)) = 300
    /\ ClampExtent(Round(2 * 800, 10), 800, ClampStart(Round(1 * 800, 10), 800)) = 160

(* C13: in the direct path a box that fits inside the image is cropped at  *)
(* exactly left = round(x*W), top = round(y*H), width = round(w*W),        *)
(* height = round(h*H), and the reported width and height are the          *)
(* rectangle's                                                             *)
C13_DirectCropIsExact ==
    (/\ pc = "responded"
     /\ response.success
     /\ extractionApproach = "direct"
     /\ Denormalize(boundingBox.x, imgWidth) + Denormalize(boundingBox.width, imgWidth)
            <= imgWidth
     /\ Denormalize(boundingBox.y, imgHeight) + Denormalize(boundingBox.height, imgHeight)
            <= imgHeight) =>
        /\ extractArea = [left |-> Denormalize(boundingBox.x, imgWidth),
                          top |-> Denormalize(boundingBox.y, imgHeight),
                          width |-> Denormalize(boundingBox.width, imgWidth),
                          height |-> Denormalize(boundingBox.height, imgHeight)]
        /\ processedBuffer.kind = "extract"
        /\ processedBuffer.area = extractArea
        /\ response.width = extractArea.width
        /\ response.height = extractArea.height
        /\ C13_Example

\* a fitting box that starts inside the image and is smaller than it
C13_Witness ==
    /\ pc = "responded"
    /\ response.success
    /\ extractionApproach = "direct"
    /\ Denormalize(boundingBox.x, imgWidth) + Denormalize(boundingBox.width, imgWidth)
           <= imgWidth
    /\ Denormalize(boundingBox.y, imgHeight) + Denormalize(boundingBox.height, imgHeight)
           <= imgHeight
    /\ extractArea.left > 0
    /\ extractArea.top > 0
    /\ extractArea.width < imgWidth
    /\ response.width = extractArea.width
    /\ response.height = extractArea.height

(* C18: a request with a bounding-box field or a point coordinate outside  *)
(* [0,1], or with an extractionApproach that is none of the three tags, is *)
(* answered VALIDATION_ERROR before the image is decoded or a path chosen  *)
C18_InvalidRequestRejected ==
    (pc # "start" /\ ~RequestIsValid) =>
        /\ pc = "responded"
        /\ response = ErrorResponse(400, "VALIDATION_ERROR", FALSE)
        /\ trace = <<>>
        /\ extractCall = NoCall
        /\ processedBuffer = NoRaster

\* an unknown tag on an otherwise valid request was turned away
C18_Witness ==
    /\ pc = "responded"
    /\ extractionApproach = "warp"
    /\ BoxInRange(boundingBox)
    /\ decodable = "full"
    /\ imgWidth > 0
    /\ imgHeight > 0
    /\ response.code = "VALIDATION_ERROR"

----------------------------------------------------------------------------
(* middleware: the rate limiter in front of the API routes *)

\* the clock moves in steps of TickMs milliseconds, MaxTicks steps at most
TickMs == 30000
MaxTicks == 3

\* 60 * 1000
RATE_LIMIT_WINDOW_MS == 60000
MAX_REQUESTS_PER_WINDOW == 30

\* 10 * 1024 * 1024
MaxBodyBytes == 10485760

\* the limit the README states
ReadmeRequestsPerMinute == 10

\* -1 stands for a request without a content-length header
NoLength == -1

\* Math.ceil(num / den) for num >= 0, den > 0
Ceil(num, den) == (num + den - 1) \div den

\* rateLimitMap.get(ip) of an ip the map does not hold
NoEntry == [present |-> FALSE, count |-> 0, resetTime |-> 0]

\* the x-forwarded-for header as its comma-separated parts, <<>> when absent
ForwardedHeaders == {<<>>, <<"a", "b">>}

\* the x-real-ip header, "" when absent
RealIpHeaders == {"", "a"}

ClientIps == {"a", "unknown"}

\* request.nextUrl.pathname as its segments
Pathnames == {<<"api", "process">>, <<"about">>}

ContentLengths == {NoLength, MaxBodyBytes, MaxBodyBytes + 1}

getClientIp(forwarded, realIp) ==
    IF forwarded # <<>> THEN Head(forwarded)
    ELSE IF realIp # "" THEN realIp ELSE "unknown"

\* request.nextUrl.pathname.startsWith("/api/")
StartsWithApi(pathname) == Len(pathname) >= 2 /\ pathname[1] = "api"

NextResponse == [status |-> 200, code |-> "next", retryable |-> FALSE, retryAfter |-> 0]

RateLimitResponse(retryAfter) ==
    [status |-> 429, code |-> "RATE_LIMIT", retryable |-> TRUE, retryAfter |-> retryAfter]

FileTooLargeResponse ==
    [status |-> 413, code |-> "FILE_TOO_LARGE", retryable |-> FALSE, retryAfter |-> 0]

NoAnswer == [status |-> 0, code |-> "none", retryable |-> FALSE, retryAfter |-> 0]

\* Date.now()
Now == limiter.now * TickMs

\* !entry || now > entry.resetTime
StartsNewWindow(entry, now) == ~entry.present \/ now > entry.resetTime

OverLimitStrictly(entry) == entry.count > MAX_REQUESTS_PER_WINDOW

\* entry.count >= MAX_REQUESTS_PER_WINDOW
OverLimit(entry) == entry.count >= MAX_REQUESTS_PER_WINDOW

InitRate ==
    /\ pc = "serving"
    /\ imgWidth = 0 /\ imgHeight = 0
    /\ decodable = "none"
    /\ extractionApproach = "direct"
    /\ boundingBox = NoBox
    /\ perspectivePoints = NoPoints
    /\ adjustedPoints = NoPoints
    /\ extractCall = NoCall
    /\ extractArea = NoArea
    /\ processedBuffer = NoRaster
    /\ data = <<>>
    /\ topN = 0
    /\ colorPalette = <<>>
    /\ response = NoResponse
    /\ trace = <<>>
    /\ requests = NoRequests /\ store = NoStore /\ hook = NoHook /\ canvas = NoCanvas
    /\ detector = NoDetector /\ upload = NoUpload /\ session = NoSession
    /\ \E production \in BOOLEAN :
           limiter = [used |-> TRUE,
                      production |-> production,
                      now |-> 0,
                      rateLimitMap |-> [ip \in ClientIps |-> NoEntry],
                      admitted |-> [ip \in ClientIps |-> 0],
                      ip |-> "unknown",
                      limited |-> FALSE,
                      answer |-> NoAnswer]

RateFrame ==
    UNCHANGED <<pc, imgWidth, imgHeight, decodable, extractionApproach, boundingBox,
                perspectivePoints, adjustedPoints, extractCall, extractArea,
                processedBuffer, data, topN, colorPalette, response, trace,
                requests, store, hook, canvas,
                detector, upload, session>>

\* time passes between two requests
Tick ==
    /\ limiter.used
    /\ limiter.now < MaxTicks
    /\ limiter' = [limiter EXCEPT !.now = @ + 1]
    /\ RateFrame

\* middleware(request); admitted counts, per ip, the requests of its current
\* window that the limiter did not answer with 429; ip and limited tell whose
\* request the last one was and whether it came as far as the limiter
Middleware ==
    /\ limiter.used
    /\ \E pathname \in Pathnames, forwarded \in ForwardedHeaders,
          realIp \in RealIpHeaders, contentLength \in ContentLengths :
           LET ip == getClientIp(forwarded, realIp)
               now == Now
               entry == limiter.rateLimitMap[ip]
               tooLarge == contentLength # NoLength /\ contentLength > MaxBodyBytes
               after == IF tooLarge THEN FileTooLargeResponse ELSE NextResponse
               seen == [limiter EXCEPT !.ip = ip]
           IN  IF ~StartsWithApi(pathname) \/ ~limiter.production
               THEN limiter' = [seen EXCEPT !.limited = FALSE, !.answer = NextResponse]
               ELSE IF StartsNewWindow(entry, now)
               THEN limiter' = [seen EXCEPT
                        !.limited = TRUE,
                        !.rateLimitMap[ip] = [present |-> TRUE, count |-> 1,
                                              resetTime |-> now + RATE_LIMIT_WINDOW_MS],
                        !.admitted[ip] = 1,
                        !.answer = after]
               ELSE IF OverLimit(entry)
               THEN limiter' = [seen EXCEPT
                        !.limited = TRUE,
                        !.answer = RateLimitResponse(Ceil(entry.resetTime - now, 1000))]
               ELSE limiter' = [seen EXCEPT
                        !.limited = TRUE,
                        !.rateLimitMap[ip].count = @ + 1,
                        !.admitted[ip] = @ + 1,
                        !.answer = after]
    /\ RateFrame

NextRate == Tick \/ Middleware

SpecRate == InitRate /\ [][NextRate]_vars

(* C20: in production the limiter lets at most 10 API requests of one      *)
(* client IP through per one-minute window, and answers every further one  *)
(* 429 RATE_LIMIT with a Retry-After header                                *)
C20_AtMostTenPerMinute ==
    (limiter.used /\ limiter.production) =>
        \A ip \in ClientIps : limiter.admitted[ip] <= ReadmeRequestsPerMinute

\* the step is no tick of the clock but the limiter's handling of a request
\* of ip
LimitedRequestOf(ip) ==
    /\ limiter'.now = limiter.now
    /\ limiter'.limited
    /\ limiter'.ip = ip

(* C28: a request rejected with 429 leaves the client's entry (count and   *)
(* resetTime) unchanged; the count of an entry never exceeds               *)
(* MAX_REQUESTS_PER_WINDOW; the first request of an IP that arrives after  *)
(* resetTime is admitted and opens a new window with count 1               *)
C28_RejectionsKeepEntry ==
    /\ [](limiter.used =>
              \A ip \in ClientIps : limiter.rateLimitMap[ip].count <= MAX_REQUESTS_PER_WINDOW)
    /\ [][limiter.used =>
              \A ip \in ClientIps :
                  LET entry == limiter.rateLimitMap[ip]
                      now == limiter.now * TickMs
                  IN  /\ (LimitedRequestOf(ip) /\ limiter'.answer.status = 429) =>
                             /\ limiter'.rateLimitMap = limiter.rateLimitMap
                             /\ entry.present
                             /\ entry.count = MAX_REQUESTS_PER_WINDOW
                             /\ now <= entry.resetTime
                      /\ (LimitedRequestOf(ip) /\ entry.present /\ now > entry.resetTime) =>
                             /\ limiter'.answer.status # 429
                             /\ limiter'.rateLimitMap[ip] =
                                    [present |-> TRUE, count |-> 1,
                                     resetTime |-> now + RATE_LIMIT_WINDOW_MS]
                      /\ ~LimitedRequestOf(ip) =>
                             limiter'.rateLimitMap[ip] = entry]_vars

\* a request rejected in a window that did not open at time 0
C28_Witness ==
    /\ limiter.used
    /\ limiter.production
    /\ limiter.ip = "a"
    /\ limiter.limited
    /\ limiter.answer.status = 429
    /\ limiter.rateLimitMap["a"].count = MAX_REQUESTS_PER_WINDOW
    /\ limiter.rateLimitMap["a"].resetTime > RATE_LIMIT_WINDOW_MS

----------------------------------------------------------------------------
(* removeBackground: grafting the segmentation's alpha onto the original *)

\* images are rows of at most MaxGraftPixels pixels <<r, g, b, a>>
MaxGraftPixels == 2

OriginalPixels == {<<100, 50, 25, MaxChannel>>, <<MaxChannel, MaxChannel, MaxChannel, MaxChannel>>,
                   <<100, 50, 25, 128>>}

SegmentedPixels == {<<180, 150, 140, 0>>, <<180, 150, 140, 128>>,
                    <<180, 150, 140, MaxChannel>>}

\* A 2d canvas keeps its bitmap either premultiplied by alpha or as written; the
\* HTML standard leaves the choice to the browser.  What is written into the
\* bitmap of a premultiplying canvas:
Premultiply(pixel) ==
    <<Round(pixel[1] * pixel[4], MaxChannel), Round(pixel[2] * pixel[4], MaxChannel),
      Round(pixel[3] * pixel[4], MaxChannel), pixel[4]>>

\* and what is read back from it
Unpremultiply(stored) ==
    IF stored[4] = 0 THEN <<0, 0, 0, 0>>
    ELSE <<Min(MaxChannel, Round(stored[1] * MaxChannel, stored[4])),
           Min(MaxChannel, Round(stored[2] * MaxChannel, stored[4])),
           Min(MaxChannel, Round(stored[3] * MaxChannel, stored[4])),
           stored[4]>>

\* ctx.drawImage(img, 0, 0, width, height) and ctx.putImageData(data, 0, 0) on a
\* cleared canvas: the bitmap afterwards
WriteBitmap(pixels, premultiplied) ==
    [i \in 1..Len(pixels) |-> IF premultiplied THEN Premultiply(pixels[i]) ELSE pixels[i]]

\* ctx.getImageData(0, 0, width, height) and canvas.toDataURL("image/png")
ReadBitmap(bitmap, premultiplied) ==
    [i \in 1..Len(bitmap) |-> IF premultiplied THEN Unpremultiply(bitmap[i]) ELSE bitmap[i]]

\* originalData.data[i + 3] = segmentedData.data[i + 3]
Transplant(originalPixel, segmentedPixel) ==
    <<originalPixel[1], originalPixel[2], originalPixel[3], segmentedPixel[4]>>

\* the body of checkReady once both images are loaded
Graft(original, segmented, premultiplied) ==
    LET originalData == ReadBitmap(WriteBitmap(original, premultiplied), premultiplied)
        segmentedData == ReadBitmap(WriteBitmap(segmented, premultiplied), premultiplied)
        grafted == [i \in 1..Len(originalData) |->
                        Transplant(originalData[i], segmentedData[i])]
    IN  ReadBitmap(WriteBitmap(grafted, premultiplied), premultiplied)

InitGraft ==
    /\ pc = "grafting"
    /\ imgWidth = 0 /\ imgHeight = 0
    /\ decodable = "none"
    /\ extractionApproach = "direct"
    /\ boundingBox = NoBox
    /\ perspectivePoints = NoPoints
    /\ adjustedPoints = NoPoints
    /\ extractCall = NoCall
    /\ extractArea = NoArea
    /\ processedBuffer = NoRaster
    /\ data = <<>>
    /\ topN = 0
    /\ colorPalette = <<>>
    /\ response = NoResponse
    /\ trace = <<>>
    /\ requests = NoRequests /\ store = NoStore /\ hook = NoHook /\ limiter = NoLimiter
    /\ detector = NoDetector /\ upload = NoUpload /\ session = NoSession
    /\ \E n \in 1..MaxGraftPixels, premultiplied \in BOOLEAN :
       \E original \in [1..n -> OriginalPixels], segmented \in [1..n -> SegmentedPixels] :
           canvas = [used |-> TRUE,
                     premultiplied |-> premultiplied,
                     original |-> original,
                     segmented |-> segmented,
                     originalLoaded |-> FALSE,
                     segmentedLoaded |-> FALSE,
                     loaded |-> 0,
                     outcome |-> "pending",
                     result |-> <<>>]

GraftFrame ==
    UNCHANGED <<pc, imgWidth, imgHeight, decodable, extractionApproach, boundingBox,
                perspectivePoints, adjustedPoints, extractCall, extractArea,
                processedBuffer, data, topN, colorPalette, response, trace,
                requests, store, hook, limiter,
                detector, upload, session>>

\* checkReady, called by either image's onload
checkReady(c) ==
    IF c.loaded + 1 # 2
    THEN [c EXCEPT !.loaded = @ + 1]
    ELSE [c EXCEPT !.loaded = @ + 1,
                   !.outcome = "resolved",
                   !.result = Graft(c.original, c.segmented, c.premultiplied)]

\* originalImg.onload
OriginalOnload ==
    /\ canvas.used
    /\ canvas.outcome = "pending"
    /\ ~canvas.originalLoaded
    /\ canvas' = checkReady([canvas EXCEPT !.originalLoaded = TRUE])
    /\ GraftFrame

\* segmentedImg.onload
SegmentedOnload ==
    /\ canvas.used
    /\ canvas.outcome = "pending"
    /\ ~canvas.segmentedLoaded
    /\ canvas' = checkReady([canvas EXCEPT !.segmentedLoaded = TRUE])
    /\ GraftFrame

\* originalImg.onerror or segmentedImg.onerror
ImageOnerror ==
    /\ canvas.used
    /\ canvas.outcome = "pending"
    /\ ~canvas.originalLoaded \/ ~canvas.segmentedLoaded
    /\ canvas' = [canvas EXCEPT !.outcome = "rejected"]
    /\ GraftFrame

NextGraft == OriginalOnload \/ SegmentedOnload \/ ImageOnerror

SpecGraft == InitGraft /\ [][NextGraft]_vars

(* C15: every pixel of the image removeBackground returns has the R, G and *)
(* B of the original image unchanged and the alpha of the segmentation     *)
(* result                                                                  *)
C15_GraftKeepsRgb ==
    (canvas.used /\ canvas.outcome = "resolved") =>
        \A i \in 1..Len(canvas.original) :
            /\ canvas.result[i][1] = canvas.original[i][1]
            /\ canvas.result[i][2] = canvas.original[i][2]
            /\ canvas.result[i][3] = canvas.original[i][3]
            /\ canvas.result[i][4] = canvas.segmented[i][4]

----------------------------------------------------------------------------
(* The client: useAppStore and useExtraction.processSelection *)

\* the crops the server can have cut for the client
Crops == {"cropA", "cropB"}

\* images by what they show (crop), how they were toned (variant), how they are
\* carried (form) and whose alpha they have
EnhancedBuffer(crop) ==
    [crop |-> crop, variant |-> "enhanced", form |-> "buffer", alpha |-> "own"]

\* null
NoImage == [crop |-> "none", variant |-> "none", form |-> "none", alpha |-> "none"]

\* the arrow function (bgProgress) => {...}
ProgressCallback ==
    [crop |-> "none", variant |-> "function", form |-> "function", alpha |-> "none"]

\* an argument left out of a call
Undefined ==
    [crop |-> "none", variant |-> "undefined", form |-> "undefined", alpha |-> "none"]

\* sharp(buffer).gamma(2.5).linear(1.3, +40).png().toBuffer().then(b => b.toString("base64"))
prepareForSegmentation(buffer) ==
    [buffer EXCEPT !.variant = "lightened", !.form = "base64"]

ProcessedBase64Lightened(buffer) == prepareForSegmentation(buffer)

\* processedBuffer.toString("base64")
ProcessedBase64(buffer) == [buffer EXCEPT !.form = "base64"]

\* `data:image/png;base64,${base64}`
DataUrl(base64) == [base64 EXCEPT !.form = "dataurl"]

ClientPalettes == {<<>>, <<"#102030">>}

NoError == [code |-> "none", retryable |-> FALSE]

ApiError(code, retryable) == [code |-> code, retryable |-> retryable]

\* what the fetch of /api/process can bring: an error body, a success body, or a
\* rejection of the fetch itself
ProcessResponses ==
    {[kind |-> "error", error |-> e, image |-> NoImage, colorPalette |-> <<>>] :
        e \in {ApiError("VALIDATION_ERROR", FALSE), ApiError("INVALID_IMAGE", FALSE),
               ApiError("PROCESSING_ERROR", TRUE), ApiError("RATE_LIMIT", TRUE)}}
    \cup {[kind |-> "rejected", error |-> NoError, image |-> NoImage, colorPalette |-> <<>>]}
    \cup {[kind |-> "success", error |-> NoError,
           image |-> ProcessedBase64(EnhancedBuffer(c)), colorPalette |-> p] :
              c \in Crops, p \in ClientPalettes}

deriveAppStep(processingStep) ==
    CASE processingStep \in {"detecting", "detected", "processing", "removing-bg"} -> "detect"
      [] processingStep = "complete" -> "download"
      [] OTHER -> "upload"

\* PROCESSING_STEPS[step].progress
StepProgress(step) ==
    CASE step = "detecting" -> 20
      [] step = "detected" -> 40
      [] step = "processing" -> 60
      [] step = "removing-bg" -> 80
      [] step = "complete" -> 100
      [] OTHER -> 0

\* null where a GarmentImage or a DetectionResult is expected
NoGarment == "none"
NoDetection == [extractionApproach |-> "none"]

initialState ==
    [used |-> TRUE,
     currentStep |-> "upload",
     image |-> NoGarment,
     detection |-> NoDetection,
     adjustedPoints |-> NoPoints,
     processingStep |-> "upload",
     processingProgress |-> 0,
     processedImageUrl |-> NoImage,
     finalImageUrl |-> NoImage,
     colorPalette |-> <<>>,
     error |-> NoError]

setError(s, error) ==
    [s EXCEPT !.error = error,
              !.processingStep = IF error # NoError THEN "error" ELSE "upload",
              !.currentStep = "upload"]

setProcessingStep(s, step) ==
    [s EXCEPT !.processingStep = step,
              !.currentStep = deriveAppStep(step),
              !.processingProgress = StepProgress(step)]

setProcessedImage(s, url) == [s EXCEPT !.processedImageUrl = url]

setFinalImage(s, url, palette) ==
    [s EXCEPT !.finalImageUrl = url,
              !.colorPalette = palette,
              !.currentStep = "download",
              !.processingStep = "complete",
              !.processingProgress = 100]

shouldSkipOnlyTexture(approach) == approach = "texture-remove"

\* detection.extractionApproach === "texture-remove" || ... === "direct"
shouldSkipBgRemoval(approach) == approach \in {"texture-remove", "direct"}

NoBgCall ==
    [originalDataUrl |-> NoImage, segmentationDataUrl |-> NoImage, onProgress |-> NoImage]

\* removeBackground(processedDataUrl, (bgProgress) => {...}) bound to the parameters
\* (originalDataUrl, segmentationDataUrl, onProgress?)
RemoveBackgroundCall(processedDataUrl, callback) ==
    [originalDataUrl |-> processedDataUrl,
     segmentationDataUrl |-> callback,
     onProgress |-> Undefined]

\* fetch(segmentationDataUrl) brings an image only from the URL of one
SegmentationInputLoads(call) == call.segmentationDataUrl.form = "dataurl"

\* the PNG removeBackground resolves with
GraftedDataUrl(call) == [call.originalDataUrl EXCEPT !.alpha = "segmented"]

InitClient ==
    /\ pc = "client"
    /\ imgWidth = 0 /\ imgHeight = 0
    /\ decodable = "none"
    /\ extractionApproach = "direct"
    /\ boundingBox = NoBox
    /\ perspectivePoints = NoPoints
    /\ adjustedPoints = NoPoints
    /\ extractCall = NoCall
    /\ extractArea = NoArea
    /\ processedBuffer = NoRaster
    /\ data = <<>>
    /\ topN = 0
    /\ colorPalette = <<>>
    /\ response = NoResponse
    /\ trace = <<>>
    /\ requests = NoRequests /\ limiter = NoLimiter /\ canvas = NoCanvas
    /\ detector = NoDetector /\ upload = NoUpload /\ session = NoSession
    /\ store = initialState
    /\ hook = [used |-> TRUE,
               at |-> "idle",
               isLoading |-> FALSE,
               approach |-> "direct",
               processed |-> NoImage,
               palette |-> <<>>,
               bgCall |-> NoBgCall,
               segmented |-> NoImage]

ClientFrame ==
    UNCHANGED <<pc, imgWidth, imgHeight, decodable, extractionApproach, boundingBox,
                perspectivePoints, adjustedPoints, extractCall, extractArea,
                processedBuffer, data, topN, colorPalette, response, trace,
                requests, limiter, canvas,
                detector, upload, session>>

\* processSelection(image, detection, adjustedPoints) up to its await of the fetch
ProcessSelection ==
    /\ hook.used
    /\ hook.at = "idle"
    /\ \E approach \in {"direct", "perspective-correct", "texture-remove"} :
           hook' = [hook EXCEPT !.at = "fetching",
                                !.isLoading = TRUE,
                                !.approach = approach,
                                !.processed = NoImage,
                                !.palette = <<>>,
                                !.bgCall = NoBgCall,
                                !.segmented = NoImage]
    /\ store' = setProcessingStep(setError(store, NoError), "processing")
    /\ ClientFrame

\* processSelection from the answer of /api/process to its end or to its await of
\* removeBackground
ProcessFetched ==
    /\ hook.used
    /\ hook.at = "fetching"
    /\ \E res \in ProcessResponses :
           CASE res.kind = "error" ->
                    /\ store' = setError(store, res.error)
                    /\ hook' = [hook EXCEPT !.at = "idle", !.isLoading = FALSE]
             [] res.kind = "rejected" ->
                    /\ store' = setError(store, ApiError("PROCESSING_ERROR", TRUE))
                    /\ hook' = [hook EXCEPT !.at = "idle", !.isLoading = FALSE]
             [] res.kind = "success" ->
                    LET processedDataUrl == DataUrl(res.image)
                        shown == setProcessedImage(store, processedDataUrl)
                    IN  IF shouldSkipBgRemoval(hook.approach)
                        THEN /\ store' = setFinalImage(shown, processedDataUrl,
                                                       res.colorPalette)
                             /\ hook' = [hook EXCEPT !.at = "idle",
                                                     !.isLoading = FALSE,
                                                     !.processed = processedDataUrl,
                                                     !.palette = res.colorPalette]
                        ELSE /\ store' = setProcessingStep(shown, "removing-bg")
                             /\ hook' = [hook EXCEPT
                                    !.at = "removing-bg",
                                    !.processed = processedDataUrl,
                                    !.palette = res.colorPalette,
                                    !.bgCall = RemoveBackgroundCall(processedDataUrl,
                                                                    ProgressCallback),
                                    !.segmented = ProgressCallback]
    /\ ClientFrame

\* removeBackground settles and processSelection runs to its end
BackgroundRemoved ==
    /\ hook.used
    /\ hook.at = "removing-bg"
    /\ IF SegmentationInputLoads(hook.bgCall)
       THEN store' = setFinalImage(store, GraftedDataUrl(hook.bgCall), hook.palette)
       ELSE store' = setError(store, ApiError("PROCESSING_ERROR", TRUE))
    /\ hook' = [hook EXCEPT !.at = "idle", !.isLoading = FALSE]
    /\ ClientFrame

NextClient == ProcessSelection \/ ProcessFetched \/ BackgroundRemoved

SpecClient == InitClient /\ [][NextClient]_vars

\* the images the user gets to see
VisibleImages == {store.processedImageUrl, store.finalImageUrl}

(* C16: in every run of the client pipeline the lightened segmentation     *)
(* variant is never stored as processedImageUrl or finalImageUrl and is    *)
(* never the source of the colour channels of the result                   *)
C16_LightenedNeverVisible ==
    store.used =>
        /\ \A image \in VisibleImages : image.variant # "lightened"
        /\ hook.bgCall.originalDataUrl.variant # "lightened"

\* a finished run whose result is on display
C16_Witness ==
    /\ store.used
    /\ store.processingStep = "complete"
    /\ store.finalImageUrl.variant = "enhanced"
    /\ store.processedImageUrl = store.finalImageUrl
    /\ hook.approach = "texture-remove"

(* C17: whenever background removal runs, the image handed to the          *)
(* segmentation model is the lightened variant prepareForSegmentation      *)
(* makes of the same crop, and the image handed over as the original is    *)
(* the unlightened processed image                                         *)
C17_SegmentationGetsLightened ==
    (hook.used /\ hook.at = "removing-bg") =>
        /\ hook.segmented.variant = "lightened"
        /\ hook.segmented.crop = hook.processed.crop
        /\ hook.bgCall.segmentationDataUrl
               = DataUrl(prepareForSegmentation(EnhancedBuffer(hook.processed.crop)))
        /\ hook.bgCall.originalDataUrl = hook.processed
        /\ hook.processed.variant = "enhanced"

----------------------------------------------------------------------------
(* Several /api/process requests served side by side *)

\* the requests in flight at once
MaxRequests == 2

RequestIds == 1..MaxRequests

WholeQuad == <<<<0, 0>>, <<Den, 0>>, <<Den, Den>>, <<0, Den>>>>

CornerQuad == <<<<0, 0>>, <<1, 0>>, <<1, 1>>, <<0, 1>>>>

\* a request as POST receives it: its body and the image its imageBase64 holds
Incoming(approach, box, points, adjusted, decodes, w, h, pixels) ==
    [pc |-> "start",
     extractionApproach |-> approach,
     boundingBox |-> box,
     perspectivePoints |-> points,
     adjustedPoints |-> adjusted,
     decodable |-> decodes,
     imgWidth |-> w,
     imgHeight |-> h,
     pixels |-> pixels,
     processedBuffer |-> NoRaster,
     colorPalette |-> <<>>,
     response |-> NoResponse]

ConcurrentInputs ==
    { Incoming("direct", [x |-> 0, y |-> 0, width |-> 1, height |-> 1], WholeQuad,
               NoPoints, "full", 4, 2, <<<<16, 32, 48>>>>),
      Incoming("direct", [x |-> 1, y |-> 1, width |-> 0, height |-> 0], WholeQuad,
               NoPoints, "full", 2, 2, <<<<0, 0, 0>>>>),
      Incoming("perspective-correct", NoBox, WholeQuad, CornerQuad, "full", 2, 4,
               <<<<120, 136, 200>>, <<0, 0, 0>>>>),
      Incoming("texture-remove", NoBox, CornerQuad, NoPoints, "header", 2, 2,
               <<<<7, 0, 0>>>>),
      Incoming("warp", NoBox, WholeQuad, NoPoints, "full", 2, 2, <<<<0, 0, 0>>>>),
      Incoming("direct", NoBox, WholeQuad, NoPoints, "none", 0, 0, <<>>) }

\* a request stopped by the answer it gets
Answered(r, answer) == [r EXCEPT !.pc = "responded", !.response = answer]

\* the part of POST that request r runs next, up to its next await; every value
\* it reads or writes is a local of that call
StepOf(r) ==
    LET source == SourceRaster(r.imgWidth, r.imgHeight, r.decodable = "full")
    IN  CASE r.pc = "start" ->
                 IF processRequestSchema(r.extractionApproach, r.boundingBox,
                                         r.perspectivePoints, r.adjustedPoints)
                 THEN [r EXCEPT !.pc = "decode"]
                 ELSE Answered(r, ErrorResponse(400, "VALIDATION_ERROR", FALSE))
          [] r.pc = "decode" ->
                 IF r.decodable = "none" THEN Answered(r, CaughtResponse)
                 ELSE IF r.imgWidth = 0 \/ r.imgHeight = 0
                 THEN Answered(r, ErrorResponse(400, "INVALID_IMAGE", FALSE))
                 ELSE [r EXCEPT !.pc = "extract"]
          [] r.pc = "extract" ->
                 LET result ==
                         IF r.extractionApproach = "direct"
                         THEN cropRegion(source, r.boundingBox, r.imgWidth, r.imgHeight)
                         ELSE applyPerspectiveCorrection(
                                  source, SelectPoints(r.adjustedPoints, r.perspectivePoints),
                                  r.imgWidth, r.imgHeight)
                 IN  IF IsThrown(result)
                     THEN Answered([r EXCEPT !.processedBuffer = result], CaughtResponse)
                     ELSE [r EXCEPT !.pc = "enhance", !.processedBuffer = result]
          [] r.pc = "enhance" ->
                 LET result == enhanceDesign(r.processedBuffer)
                 IN  IF IsThrown(result)
                     THEN Answered([r EXCEPT !.processedBuffer = result], CaughtResponse)
                     ELSE [r EXCEPT !.pc = "palette", !.processedBuffer = result]
          [] r.pc = "palette" ->
                 Answered([r EXCEPT !.colorPalette = extractColorPalette(r.pixels, RouteTopN)],
                          [status |-> 200, success |-> TRUE, code |-> "",
                           retryable |-> FALSE,
                           width |-> r.processedBuffer.width,
                           height |-> r.processedBuffer.height])
          [] OTHER -> r

\* the request as it arrived
Arrival(r) ==
    [r EXCEPT !.pc = "start", !.processedBuffer = NoRaster, !.colorPalette = <<>>,
              !.response = NoResponse]

\* the request served with no other request in flight
RunAlone(r) == StepOf(StepOf(StepOf(StepOf(StepOf(Arrival(r))))))

InitConcurrent ==
    /\ pc = "serving"
    /\ imgWidth = 0 /\ imgHeight = 0
    /\ decodable = "none"
    /\ extractionApproach = "direct"
    /\ boundingBox = NoBox
    /\ perspectivePoints = NoPoints
    /\ adjustedPoints = NoPoints
    /\ extractCall = NoCall
    /\ extractArea = NoArea
    /\ processedBuffer = NoRaster
    /\ data = <<>>
    /\ topN = 0
    /\ colorPalette = <<>>
    /\ response = NoResponse
    /\ trace = <<>>
    /\ limiter = NoLimiter /\ store = NoStore /\ hook = NoHook /\ canvas = NoCanvas
    /\ detector = NoDetector /\ upload = NoUpload /\ session = NoSession
    /\ requests \in [RequestIds -> ConcurrentInputs]

ConcurrentFrame ==
    UNCHANGED <<pc, imgWidth, imgHeight, decodable, extractionApproach, boundingBox,
                perspectivePoints, adjustedPoints, extractCall, extractArea,
                processedBuffer, data, topN, colorPalette, response, trace,
                limiter, store, hook, canvas,
                detector, upload, session>>

RequestStepOnSharedBuffer ==
    /\ requests # NoRequests
    /\ \E id \in RequestIds :
           /\ requests[id].pc # "responded"
           /\ requests' = [requests EXCEPT ![id] =
                  StepOf([requests[id] EXCEPT
                             !.processedBuffer = requests[1].processedBuffer])]
    /\ ConcurrentFrame

\* the event loop resumes one of the requests in flight
RequestStep ==
    /\ requests # NoRequests
    /\ \E id \in RequestIds :
           /\ requests[id].pc # "responded"
           /\ requests' = [requests EXCEPT ![id] = StepOf(requests[id])]
    /\ ConcurrentFrame

NextConcurrent == RequestStep

SpecConcurrent == InitConcurrent /\ [][NextConcurrent]_vars

\* what a request's caller gets to see
Outcome(r) ==
    [response |-> r.response, raster |-> r.processedBuffer, palette |-> r.colorPalette]

----------------------------------------------------------------------------
(* lib/gemini: detectPrintRegion, its retry loop and its timeout *)

\* largest GEMINI_MAX_RETRIES the environment is given
MaxRetriesEnv == 4

DefaultMaxRetries == 3
ErrorTextLimit == 200
BackoffBaseMs == 1000

\* texts are sequences of characters
\* String.prototype.toLowerCase on the letters
LowerOf ==
    ("A" :> "a") @@ ("B" :> "b") @@ ("C" :> "c") @@ ("D" :> "d")
    @@ ("E" :> "e") @@ ("F" :> "f") @@ ("G" :> "g") @@ ("H" :> "h")
    @@ ("I" :> "i") @@ ("J" :> "j") @@ ("K" :> "k") @@ ("L" :> "l")
    @@ ("M" :> "m") @@ ("N" :> "n") @@ ("O" :> "o") @@ ("P" :> "p")
    @@ ("Q" :> "q") @@ ("R" :> "r") @@ ("S" :> "s") @@ ("T" :> "t")
    @@ ("U" :> "u") @@ ("V" :> "v") @@ ("W" :> "w") @@ ("X" :> "x")
    @@ ("Y" :> "y") @@ ("Z" :> "z")

\* "Gemini returned an empty response"
EmptyResponseMessage ==
    <<"G", "e", "m", "i", "n", "i", " ", "r", "e", "t", "u", "r", "n", "e",
      "d", " ", "a", "n", " ", "e", "m", "p", "t", "y", " ", "r", "e", "s",
      "p", "o", "n", "s", "e">>

\* "Gemini returned invalid JSON: "
InvalidJsonPrefix ==
    <<"G", "e", "m", "i", "n", "i", " ", "r", "e", "t", "u", "r", "n", "e",
      "d", " ", "i", "n", "v", "a", "l", "i", "d", " ", "J", "S", "O", "N",
      ":", " ">>

\* "Gemini response failed validation: "
ValidationPrefix ==
    <<"G", "e", "m", "i", "n", "i", " ", "r", "e", "s", "p", "o", "n", "s",
      "e", " ", "f", "a", "i", "l", "e", "d", " ", "v", "a", "l", "i", "d",
      "a", "t", "i", "o", "n", ":", " ">>

\* "GEMINI_API_KEY is not set. ..."
MissingKeyMessage ==
    <<"G", "E", "M", "I", "N", "I", "_", "A", "P", "I", "_", "K", "E", "Y",
      " ", "i", "s", " ", "n", "o", "t", " ", "s", "e", "t", ".">>

\* "Detection failed after all retries"
AllRetriesMessage ==
    <<"D", "e", "t", "e", "c", "t", "i", "o", "n", " ", "f", "a", "i", "l",
      "e", "d", " ", "a", "f", "t", "e", "r", " ", "a", "l", "l", " ", "r",
      "e", "t", "r", "i", "e", "s">>

\* a detection as the prompt asks for it
ValidText ==
    <<"{", "\"", "c", "o", "n", "f", "i", "d", "e", "n", "c", "e", "\"", ":",
      " ", "0", ".", "9", "}">>

\* the same inside a code fence
FencedText ==
    <<"backtick", "backtick", "backtick", "j", "s", "o", "n", "\n", "{", "\"",
      "c", "o", "n", "f", "i", "d", "e", "n", "c", "e", "\"", ":", " ", "0",
      ".", "9", "}", "\n", "backtick", "backtick", "backtick">>

\* blanks only
BlankText ==
    <<" ", " ">>

\* prose instead of JSON
ApologyText ==
    <<"S", "o", "r", "r", "y", ",", " ", "n", "o", " ", "p", "r", "i", "n",
      "t", " ", "f", "o", "u", "n", "d">>

\* prose instead of JSON that has the letters r-a-t-e in it
RefusalText ==
    <<"I", " ", "c", "a", "n", "n", "o", "t", " ", "g", "e", "n", "e", "r",
      "a", "t", "e", " ", "J", "S", "O", "N">>

\* JSON with confidence 2
OverconfidentText ==
    <<"{", "\"", "c", "o", "n", "f", "i", "d", "e", "n", "c", "e", "\"", ":",
      " ", "2", "}">>

\* JSON with fabricDistortion "heavy"
HeavyText ==
    <<"{", "\"", "f", "a", "b", "r", "i", "c", "D", "i", "s", "t", "o", "r",
      "t", "i", "o", "n", "\"", ":", " ", "\"", "h", "e", "a", "v", "y", "\"",
      "}">>

\* zod's issue for confidence 2, as path: message
ConfidenceIssue ==
    <<"c", "o", "n", "f", "i", "d", "e", "n", "c", "e", ":", " ", "N", "u",
      "m", "b", "e", "r", " ", "m", "u", "s", "t", " ", "b", "e", " ", "l",
      "e", "s", "s", " ", "t", "h", "a", "n", " ", "o", "r", " ", "e", "q",
      "u", "a", "l", " ", "t", "o", " ", "1">>

\* zod's issue for an unknown fabricDistortion: it lists the options
DistortionIssue ==
    <<"f", "a", "b", "r", "i", "c", "D", "i", "s", "t", "o", "r", "t", "i",
      "o", "n", ":", " ", "I", "n", "v", "a", "l", "i", "d", " ", "e", "n",
      "u", "m", " ", "v", "a", "l", "u", "e", ".", " ", "E", "x", "p", "e",
      "c", "t", "e", "d", " ", "'", "n", "o", "n", "e", "'", " ", "|", " ",
      "'", "m", "i", "n", "i", "m", "a", "l", "'", " ", "|", " ", "'", "m",
      "o", "d", "e", "r", "a", "t", "e", "'", " ", "|", " ", "'", "s", "e",
      "v", "e", "r", "e", "'", ",", " ", "r", "e", "c", "e", "i", "v", "e",
      "d", " ", "'", "h", "e", "a", "v", "y", "'">>

\* the SDK's error for HTTP 429
TooManyRequestsMessage ==
    <<"[", "G", "o", "o", "g", "l", "e", "G", "e", "n", "e", "r", "a", "t",
      "i", "v", "e", "A", "I", " ", "E", "r", "r", "o", "r", "]", ":", " ",
      "[", "4", "2", "9", " ", "T", "o", "o", " ", "M", "a", "n", "y", " ",
      "R", "e", "q", "u", "e", "s", "t", "s", "]", " ", "R", "e", "s", "o",
      "u", "r", "c", "e", " ", "h", "a", "s", " ", "b", "e", "e", "n", " ",
      "e", "x", "h", "a", "u", "s", "t", "e", "d">>

\* the SDK's error for HTTP 503
UnavailableMessage ==
    <<"[", "G", "o", "o", "g", "l", "e", "G", "e", "n", "e", "r", "a", "t",
      "i", "v", "e", "A", "I", " ", "E", "r", "r", "o", "r", "]", ":", " ",
      "[", "5", "0", "3", " ", "S", "e", "r", "v", "i", "c", "e", " ", "U",
      "n", "a", "v", "a", "i", "l", "a", "b", "l", "e", "]", " ", "T", "h",
      "e", " ", "m", "o", "d", "e", "l", " ", "i", "s", " ", "o", "v", "e",
      "r", "l", "o", "a", "d", "e", "d">>

\* the SDK's error for HTTP 400
BadRequestMessage ==
    <<"[", "G", "o", "o", "g", "l", "e", "G", "e", "n", "e", "r", "a", "t",
      "i", "v", "e", "A", "I", " ", "E", "r", "r", "o", "r", "]", ":", " ",
      "[", "4", "0", "0", " ", "B", "a", "d", " ", "R", "e", "q", "u", "e",
      "s", "t", "]", " ", "A", "P", "I", " ", "k", "e", "y", " ", "n", "o",
      "t", " ", "v", "a", "l", "i", "d">>

Needle429 ==
    <<"4", "2", "9">>

Needle503 ==
    <<"5", "0", "3">>

NeedleRate ==
    <<"r", "a", "t", "e">>

NeedleOverloaded ==
    <<"o", "v", "e", "r", "l", "o", "a", "d", "e", "d">>

NeedleResourceExhausted ==
    <<"r", "e", "s", "o", "u", "r", "c", "e", " ", "e", "x", "h", "a", "u",
      "s", "t", "e", "d">>

Lower(c) == IF c \in DOMAIN LowerOf THEN LowerOf[c] ELSE c

\* message.toLowerCase()
ToLowerCase(text) == [i \in 1..Len(text) |-> Lower(text[i])]

\* text.includes(needle)
Includes(text, needle) ==
    \E i \in 0..(Len(text) - Len(needle)) : SubSeq(text, i + 1, i + Len(needle)) = needle

StartsWith(text, prefix) ==
    Len(text) >= Len(prefix) /\ SubSeq(text, 1, Len(prefix)) = prefix

EndsWith(text, suffix) ==
    Len(text) >= Len(suffix)
    /\ SubSeq(text, Len(text) - Len(suffix) + 1, Len(text)) = suffix

IsSpace(c) == c \in {" ", "\n"}

RECURSIVE TrimStart(_)
TrimStart(text) ==
    IF text # <<>> /\ IsSpace(Head(text)) THEN TrimStart(Tail(text)) ELSE text

RECURSIVE TrimEnd(_)
TrimEnd(text) ==
    IF text # <<>> /\ IsSpace(text[Len(text)])
    THEN TrimEnd(SubSeq(text, 1, Len(text) - 1))
    ELSE text

\* text.trim()
Trim(text) == TrimEnd(TrimStart(text))

\* three backticks; a backtick is written "backtick"
Fence == <<"backtick", "backtick", "backtick">>

\* cleaned.replace(/^'''(?:json)?\s*\n?/, ""), ''' being the fence
DropOpeningFence(text) ==
    LET afterFence == SubSeq(text, Len(Fence) + 1, Len(text))
        afterTag == IF StartsWith(afterFence, <<"j", "s", "o", "n">>)
                    THEN SubSeq(afterFence, 5, Len(afterFence))
                    ELSE afterFence
    IN  TrimStart(afterTag)

\* .replace(/\n?'''\s*$/, "")
DropClosingFence(text) ==
    LET body == TrimEnd(text)
    IN  IF EndsWith(body, Fence)
        THEN LET inner == SubSeq(body, 1, Len(body) - Len(Fence))
             IN  IF inner # <<>> /\ inner[Len(inner)] = "\n"
                 THEN SubSeq(inner, 1, Len(inner) - 1)
                 ELSE inner
        ELSE text

stripCodeFences(raw) ==
    LET cleaned == Trim(raw)
    IN  IF StartsWith(cleaned, Fence)
        THEN Trim(DropClosingFence(DropOpeningFence(cleaned)))
        ELSE cleaned

\* cleaned.substring(0, 200)
Substring(text, limit) == SubSeq(text, 1, Min(Len(text), limit))

\* what one generateContent call can settle with: a text, with what JSON.parse and
\* detectionResultSchema make of it, or a rejection with the SDK's message
Reply(kind, text, parses, issues, message) ==
    [kind |-> kind, text |-> text, parses |-> parses, issues |-> issues,
     message |-> message]

Replies ==
    { Reply("valid", ValidText, TRUE, <<>>, <<>>),
      Reply("valid", FencedText, TRUE, <<>>, <<>>),
      Reply("empty", <<>>, FALSE, <<>>, <<>>),
      Reply("empty", BlankText, FALSE, <<>>, <<>>),
      Reply("not_json", ApologyText, FALSE, <<>>, <<>>),
      Reply("not_json", RefusalText, FALSE, <<>>, <<>>),
      Reply("bad_schema", OverconfidentText, TRUE, ConfidenceIssue, <<>>),
      Reply("bad_schema", HeavyText, TRUE, DistortionIssue, <<>>),
      Reply("http_429", <<>>, FALSE, <<>>, TooManyRequestsMessage),
      Reply("http_503", <<>>, FALSE, <<>>, UnavailableMessage),
      Reply("http_400", <<>>, FALSE, <<>>, BadRequestMessage) }

\* the error the try block of one attempt ends with, <<>> when it returns
AttemptError(reply) ==
    IF reply.message # <<>> THEN reply.message
    ELSE IF Len(Trim(reply.text)) = 0 THEN EmptyResponseMessage
    ELSE IF ~reply.parses
    THEN InvalidJsonPrefix \o Substring(stripCodeFences(reply.text), ErrorTextLimit)
    ELSE IF reply.issues # <<>> THEN ValidationPrefix \o reply.issues
    ELSE <<>>

isRetryable(message) ==
    LET errMsg == ToLowerCase(message)
    IN  \/ Includes(errMsg, Needle429)
        \/ Includes(errMsg, Needle503)
        \/ Includes(errMsg, NeedleRate)
        \/ Includes(errMsg, NeedleOverloaded)
        \/ Includes(errMsg, NeedleResourceExhausted)

\* Number(process.env.GEMINI_MAX_RETRIES) || 3, an unset variable being -1 here
UnsetEnv == -1

MaxRetriesOf(env) == IF env = UnsetEnv \/ env = 0 THEN DefaultMaxRetries ELSE env

MayRetryAfterLast(attempt, maxRetries) == attempt < maxRetries

\* attempt < maxRetries - 1
MayRetry(attempt, maxRetries) == attempt < maxRetries - 1

\* Math.pow(2, attempt) * 1000
BackoffMs(attempt) == (2 ^ attempt) * BackoffBaseMs

\* an entry of the call's history
Event(event, attempt, kind, ms, message) ==
    [event |-> event, attempt |-> attempt, kind |-> kind, ms |-> ms, message |-> message]

InitDetect ==
    /\ pc = "detecting"
    /\ imgWidth = 0 /\ imgHeight = 0
    /\ decodable = "none"
    /\ extractionApproach = "direct"
    /\ boundingBox = NoBox
    /\ perspectivePoints = NoPoints
    /\ adjustedPoints = NoPoints
    /\ extractCall = NoCall
    /\ extractArea = NoArea
    /\ processedBuffer = NoRaster
    /\ data = <<>>
    /\ topN = 0
    /\ colorPalette = <<>>
    /\ response = NoResponse
    /\ trace = <<>>
    /\ requests = NoRequests /\ limiter = NoLimiter /\ store = NoStore
    /\ hook = NoHook /\ canvas = NoCanvas /\ upload = NoUpload
    /\ session = NoSession
    /\ \E env \in {UnsetEnv} \cup 0..MaxRetriesEnv, apiKey \in BOOLEAN :
           detector = [used |-> TRUE,
                       apiKey |-> apiKey,
                       maxRetries |-> MaxRetriesOf(env),
                       envUnset |-> env = UnsetEnv,
                       at |-> "entered",
                       attempt |-> 0,
                       calls |-> 0,
                       timerFired |-> FALSE,
                       aborted |-> FALSE,
                       lastError |-> <<>>,
                       sleeps |-> <<>>,
                       history |-> <<>>]

DetectFrame ==
    UNCHANGED <<pc, imgWidth, imgHeight, decodable, extractionApproach, boundingBox,
                perspectivePoints, adjustedPoints, extractCall, extractArea,
                processedBuffer, data, topN, colorPalette, response, trace,
                requests, limiter, store, hook, canvas, upload, session>>

\* one pass of the loop head up to the await of model.generateContent
CallModel(d, attempt) ==
    [d EXCEPT !.at = "calling",
              !.attempt = attempt,
              !.calls = @ + 1,
              !.timerFired = FALSE,
              !.aborted = FALSE,
              !.history = Append(@, Event("call", attempt, "", 0, <<>>))]

\* getModel() and the first pass of the loop
EnterDetect ==
    /\ detector.used
    /\ detector.at = "entered"
    /\ IF ~detector.apiKey
       THEN detector' = [detector EXCEPT !.at = "thrown", !.lastError = MissingKeyMessage]
       ELSE detector' = CallModel(detector, 0)
    /\ DetectFrame

\* setTimeout(() => controller.abort(), timeoutMs) comes due; the controller's
\* signal is handed to nobody
TimeoutFires ==
    /\ detector.used
    /\ detector.at = "calling"
    /\ ~detector.timerFired
    /\ detector' = [detector EXCEPT
           !.timerFired = TRUE,
           !.aborted = TRUE,
           !.history = Append(@, Event("timeout", detector.attempt, "", 0, <<>>))]
    /\ DetectFrame

\* generateContent settles: the rest of the try block and the catch block
ModelSettles ==
    /\ detector.used
    /\ detector.at = "calling"
    /\ \E reply \in Replies :
           LET error == AttemptError(reply)
               failed == [detector EXCEPT
                             !.lastError = error,
                             !.history = Append(@, Event("fail", detector.attempt,
                                                         reply.kind, 0, error))]
           IN  IF error = <<>>
               THEN detector' = [detector EXCEPT
                        !.at = "returned",
                        !.history = Append(@, Event("return", detector.attempt,
                                                    reply.kind, 0, <<>>))]
               ELSE IF isRetryable(error) /\ MayRetry(detector.attempt, detector.maxRetries)
               THEN detector' = [failed EXCEPT
                        !.at = "sleeping",
                        !.sleeps = Append(@, BackoffMs(detector.attempt)),
                        !.history = Append(@, Event("sleep", detector.attempt, reply.kind,
                                                    BackoffMs(detector.attempt), <<>>))]
               ELSE detector' = [failed EXCEPT !.at = "thrown"]
    /\ DetectFrame

\* sleep(backoffMs) is over: continue, attempt++ and the loop test
SleepEnds ==
    /\ detector.used
    /\ detector.at = "sleeping"
    /\ IF detector.attempt + 1 < detector.maxRetries
       THEN detector' = CallModel(detector, detector.attempt + 1)
       ELSE detector' = [detector EXCEPT !.at = "thrown", !.attempt = @ + 1]
    /\ DetectFrame

NextDetect == EnterDetect \/ TimeoutFires \/ ModelSettles \/ SleepEnds

SpecDetect == InitDetect /\ [][NextDetect]_vars

\* the entries of the history that are of one kind of event
EventsOf(event) ==
    {i \in 1..Len(detector.history) : detector.history[i].event = event}

(* C21: an attempt is retried only when it failed with a rate-limit or     *)
(* overload error (429/503); an empty response, a JSON parse failure or a  *)
(* schema-validation failure is thrown after that one attempt, with no     *)
(* sleep and no further model call, whatever text the model returned       *)
C21_RetriesOnlyOnOverload ==
    detector.used =>
        /\ \A i \in EventsOf("sleep") :
               detector.history[i].kind \in {"http_429", "http_503"}
        /\ \A i \in EventsOf("fail") :
               detector.history[i].kind \in {"empty", "not_json", "bad_schema"} =>
                   /\ i = Len(detector.history)
                   /\ detector.at = "thrown"

(* C22: at most maxRetries model calls are made (3 by default); the sleep  *)
(* before the retry after failed attempt k is 2^k seconds (1s, 2s, 4s);    *)
(* after the last permitted attempt fails its error is thrown with no      *)
(* sleep                                                                   *)
C22_BoundedCallsAndBackoff ==
    detector.used =>
        LET h == detector.history
            sleeps == detector.sleeps
        IN  /\ detector.calls <= detector.maxRetries
            /\ detector.calls = Cardinality(EventsOf("call"))
            /\ detector.envUnset => detector.maxRetries = 3
            /\ Len(sleeps) = Cardinality(EventsOf("sleep"))
            /\ \A k \in 1..Len(sleeps) :
                   sleeps[k] = IF k = 1 THEN 1000 ELSE 2 * sleeps[k - 1]
            \* every sleep follows the failure of the attempt it is counted from
            \* and is followed by the next call, if by anything
            /\ \A i \in EventsOf("sleep") :
                   /\ h[i - 1].event = "fail"
                   /\ h[i - 1].attempt = h[i].attempt
                   /\ h[i].ms = sleeps[h[i].attempt + 1]
                   /\ i < Len(h) => h[i + 1] = Event("call", h[i].attempt + 1, "", 0, <<>>)
            \* a call is the first or follows a sleep
            /\ \A i \in EventsOf("call") : i = 1 \/ h[i - 1].event = "sleep"
            /\ (detector.at = "thrown" /\ detector.calls > 0) =>
                   /\ h[Len(h)].event = "fail"
                   /\ detector.lastError = h[Len(h)].message
            /\ \A i \in EventsOf("fail") :
                   h[i].attempt = detector.maxRetries - 1 =>
                       i = Len(h) /\ detector.at = "thrown"

\* four permitted attempts, all failed: three sleeps and then the throw
C22_Witness ==
    /\ detector.used
    /\ detector.at = "thrown"
    /\ detector.maxRetries = 4
    /\ detector.calls = 4
    /\ detector.sleeps = <<1000, 2000, 4000>>

(* C23: every attempt is bounded by a hard timeout: when the model call    *)
(* has not answered by timeoutMs the attempt is aborted and fails          *)
C23_TimedOutAttemptFails ==
    [][(detector.used /\ detector.at = "calling" /\ detector.timerFired) =>
           detector'.at \in {"sleeping", "thrown"}]_vars

----------------------------------------------------------------------------
(* /api/extract: POST, from the upload to the detection *)

\* a confidence c stands for c / ConfidenceScale
ConfidenceScale == 100

MAX_FILE_SIZE == 10485760

ACCEPTED_TYPES == {"image/jpeg", "image/png", "image/webp"}

\* formData.get("image"): nothing, a string, or a File
ImageFields == {"missing", "string", "file"}

MimeTypes == ACCEPTED_TYPES \cup {"image/gif"}

FileSizes == {0, MAX_FILE_SIZE, MAX_FILE_SIZE + 1}

\* 0, the two confidences around 0.1, and 1
Confidences ==
    {0, (ConfidenceScale - 1) \div 10, (ConfidenceScale + 9) \div 10, ConfidenceScale}

\* the message of what request.formData() throws on a body that is no form
NotAFormMessage == <<"n", "o", "t", " ", "a", " ", "f", "o", "r", "m">>

\* the errors detectPrintRegion can throw
DetectorErrors ==
    {TooManyRequestsMessage, UnavailableMessage, BadRequestMessage,
     EmptyResponseMessage, InvalidJsonPrefix \o RefusalText}

ExtractAnswer(status, code, retryable) ==
    [status |-> status, success |-> FALSE, code |-> code, retryable |-> retryable]

ExtractSuccess == [status |-> 200, success |-> TRUE, code |-> "", retryable |-> FALSE]

NoExtractAnswer == [status |-> 0, success |-> FALSE, code |-> "", retryable |-> FALSE]

AcceptsAnyType(type) == TRUE

\* ACCEPTED_TYPES.has(imageFile.type)
AcceptsType(type) == type \in ACCEPTED_TYPES

\* detection.confidence < 0.1
BelowConfidence(c) == 10 * c < ConfidenceScale

\* the catch block: the answer for a thrown message
ClassifyError(message) ==
    IF \/ Includes(message, Needle429)
       \/ Includes(message, NeedleRate)
       \/ Includes(message, NeedleResourceExhausted)
    THEN ExtractAnswer(429, "RATE_LIMIT", TRUE)
    ELSE ExtractAnswer(500, "GEMINI_ERROR", TRUE)

InitUpload ==
    /\ pc = "extracting"
    /\ imgWidth = 0 /\ imgHeight = 0
    /\ decodable = "none"
    /\ extractionApproach = "direct"
    /\ boundingBox = NoBox
    /\ perspectivePoints = NoPoints
    /\ adjustedPoints = NoPoints
    /\ extractCall = NoCall
    /\ extractArea = NoArea
    /\ processedBuffer = NoRaster
    /\ data = <<>>
    /\ topN = 0
    /\ colorPalette = <<>>
    /\ response = NoResponse
    /\ trace = <<>>
    /\ requests = NoRequests /\ limiter = NoLimiter /\ store = NoStore
    /\ hook = NoHook /\ canvas = NoCanvas /\ detector = NoDetector
    /\ session = NoSession
    /\ \E isForm \in BOOLEAN, field \in ImageFields, type \in MimeTypes,
          size \in FileSizes :
           upload = [used |-> TRUE,
                     isForm |-> isForm,
                     field |-> field,
                     type |-> type,
                     size |-> size,
                     at |-> "received",
                     detectorCalls |-> 0,
                     detected |-> FALSE,
                     confidence |-> 0,
                     answer |-> NoExtractAnswer]

UploadFrame ==
    UNCHANGED <<pc, imgWidth, imgHeight, decodable, extractionApproach, boundingBox,
                perspectivePoints, adjustedPoints, extractCall, extractArea,
                processedBuffer, data, topN, colorPalette, response, trace,
                requests, limiter, store, hook, canvas, detector, session>>

UploadAnswered(u, answer) == [u EXCEPT !.at = "responded", !.answer = answer]

\* POST from request.formData() to the await of detectPrintRegion
CheckUpload ==
    /\ upload.used
    /\ upload.at = "received"
    /\ upload' =
           IF ~upload.isForm
           THEN UploadAnswered(upload, ClassifyError(NotAFormMessage))
           ELSE IF upload.field # "file"
           THEN UploadAnswered(upload, ExtractAnswer(400, "INVALID_IMAGE", FALSE))
           ELSE IF ~AcceptsType(upload.type)
           THEN UploadAnswered(upload, ExtractAnswer(400, "INVALID_IMAGE", FALSE))
           ELSE IF upload.size > MAX_FILE_SIZE
           THEN UploadAnswered(upload, ExtractAnswer(413, "FILE_TOO_LARGE", FALSE))
           ELSE [upload EXCEPT !.at = "detecting", !.detectorCalls = @ + 1]
    /\ UploadFrame

\* detectPrintRegion returns a detection
DetectionReturned ==
    /\ upload.used
    /\ upload.at = "detecting"
    /\ \E c \in Confidences :
           LET seen == [upload EXCEPT !.detected = TRUE, !.confidence = c]
           IN  upload' = IF BelowConfidence(c)
                         THEN UploadAnswered(seen,
                                  ExtractAnswer(404, "NO_PRINT_DETECTED", TRUE))
                         ELSE UploadAnswered(seen, ExtractSuccess)
    /\ UploadFrame

\* detectPrintRegion throws
DetectionThrown ==
    /\ upload.used
    /\ upload.at = "detecting"
    /\ \E message \in DetectorErrors :
           upload' = UploadAnswered(upload, ClassifyError(message))
    /\ UploadFrame

NextUpload == CheckUpload \/ DetectionReturned \/ DetectionThrown

SpecUpload == InitUpload /\ [][NextUpload]_vars

(* C24: the detector is called only after all upload checks passed; the    *)
(* checks are made in the order: no file under 'image' gives 400           *)
(* INVALID_IMAGE, a type other than JPEG/PNG/WEBP gives 400 INVALID_IMAGE, *)
(* a size above 10MB gives 413 FILE_TOO_LARGE; success is answered only    *)
(* for a detection of confidence >= 0.1, otherwise 404 NO_PRINT_DETECTED   *)
C24_ChecksBeforeDetector ==
    upload.used =>
        LET isFile == upload.field = "file"
            goodType == upload.type \in {"image/jpeg", "image/png", "image/webp"}
            fits == upload.size <= 10 * 1024 * 1024
            answered == upload.at = "responded"
        IN  /\ upload.detectorCalls > 0 => (upload.isForm /\ isFile /\ goodType /\ fits)
            /\ upload.detectorCalls <= 1
            /\ (answered /\ upload.isForm /\ ~isFile) =>
                   upload.answer = ExtractAnswer(400, "INVALID_IMAGE", FALSE)
            /\ (answered /\ upload.isForm /\ isFile /\ ~goodType) =>
                   upload.answer = ExtractAnswer(400, "INVALID_IMAGE", FALSE)
            /\ (answered /\ upload.isForm /\ isFile /\ goodType /\ ~fits) =>
                   upload.answer = ExtractAnswer(413, "FILE_TOO_LARGE", FALSE)
            /\ upload.answer.success =>
                   /\ upload.detected
                   /\ 10 * upload.confidence >= ConfidenceScale
            /\ (answered /\ upload.detected /\ 10 * upload.confidence < ConfidenceScale) =>
                   upload.answer = ExtractAnswer(404, "NO_PRINT_DETECTED", TRUE)

\* a file that is both of a wrong type and too large is turned away for its type
C24_Witness ==
    /\ upload.used
    /\ upload.at = "responded"
    /\ upload.isForm
    /\ upload.field = "file"
    /\ upload.type = "image/gif"
    /\ upload.size > MAX_FILE_SIZE
    /\ upload.answer.code = "INVALID_IMAGE"
    /\ upload.detectorCalls = 0

(***************************************************************************)
(* useAppStore: every action of the store, in any order                    *)
(***************************************************************************)

GarmentImages == {"imgA", "imgB"}

\* DetectionResult, by the field the client pipeline branches on
Detection(approach) == [extractionApproach |-> approach]

Detections == {Detection(a) : a \in {"direct", "perspective-correct", "texture-remove"}}

\* the overlay's corner points, or null
OverlayPoints ==
    {NoPoints,
     <<[x |-> 0, y |-> 0], [x |-> Den, y |-> 0], [x |-> Den, y |-> Den], [x |-> 0, y |-> Den]>>}

ProcessingStepIds ==
    {"upload", "detecting", "detected", "processing", "removing-bg", "complete", "error"}

StoreErrors == {NoError, ApiError("GEMINI_ERROR", TRUE), ApiError("INVALID_IMAGE", FALSE)}

StoreUrls == {DataUrl(ProcessedBase64(EnhancedBuffer(c))) : c \in Crops}

setImage(s, image) ==
    [s EXCEPT !.image = image,
              !.currentStep = "upload",
              !.processingStep = "upload",
              !.processingProgress = 0,
              !.detection = NoDetection,
              !.adjustedPoints = NoPoints,
              !.processedImageUrl = NoImage,
              !.finalImageUrl = NoImage,
              !.colorPalette = <<>>,
              !.error = NoError]

setDetectionKeepingStep(s, detection) ==
    [s EXCEPT !.detection = detection,
              !.processingStep = "detected",
              !.processingProgress = StepProgress("detected")]

setDetection(s, detection) ==
    [s EXCEPT !.detection = detection,
              !.currentStep = "detect",
              !.processingStep = "detected",
              !.processingProgress = StepProgress("detected")]

setAdjustedPoints(s, points) == [s EXCEPT !.adjustedPoints = points]

\* set(initialState)
reset(s) == initialState

InitStore ==
    /\ pc = "store"
    /\ imgWidth = 0 /\ imgHeight = 0
    /\ decodable = "none"
    /\ extractionApproach = "direct"
    /\ boundingBox = NoBox
    /\ perspectivePoints = NoPoints
    /\ adjustedPoints = NoPoints
    /\ extractCall = NoCall
    /\ extractArea = NoArea
    /\ processedBuffer = NoRaster
    /\ data = <<>>
    /\ topN = 0
    /\ colorPalette = <<>>
    /\ response = NoResponse
    /\ trace = <<>>
    /\ requests = NoRequests /\ limiter = NoLimiter /\ hook = NoHook
    /\ canvas = NoCanvas /\ detector = NoDetector /\ upload = NoUpload
    /\ session = NoSession
    /\ store = initialState

\* pc names the action dispatched last
StoreFrame ==
    UNCHANGED <<imgWidth, imgHeight, decodable, extractionApproach, boundingBox,
                perspectivePoints, adjustedPoints, extractCall, extractArea,
                processedBuffer, data, topN, colorPalette, response, trace,
                requests, limiter, hook, canvas, detector, upload, session>>

SetImage ==
    /\ store.used
    /\ pc' = "setImage"
    /\ \E image \in GarmentImages : store' = setImage(store, image)
    /\ StoreFrame

SetDetection ==
    /\ store.used
    /\ pc' = "setDetection"
    /\ \E detection \in Detections : store' = setDetection(store, detection)
    /\ StoreFrame

SetAdjustedPoints ==
    /\ store.used
    /\ pc' = "setAdjustedPoints"
    /\ \E points \in OverlayPoints : store' = setAdjustedPoints(store, points)
    /\ StoreFrame

SetProcessingStep ==
    /\ store.used
    /\ pc' = "setProcessingStep"
    /\ \E step \in ProcessingStepIds : store' = setProcessingStep(store, step)
    /\ StoreFrame

SetProcessedImage ==
    /\ store.used
    /\ pc' = "setProcessedImage"
    /\ \E url \in StoreUrls : store' = setProcessedImage(store, url)
    /\ StoreFrame

SetFinalImage ==
    /\ store.used
    /\ pc' = "setFinalImage"
    /\ \E url \in StoreUrls, palette \in ClientPalettes :
           store' = setFinalImage(store, url, palette)
    /\ StoreFrame

SetError ==
    /\ store.used
    /\ pc' = "setError"
    /\ \E error \in StoreErrors : store' = setError(store, error)
    /\ StoreFrame

ResetStore ==
    /\ store.used
    /\ pc' = "reset"
    /\ store' = reset(store)
    /\ StoreFrame

NextStore ==
    \/ SetImage
    \/ SetDetection
    \/ SetAdjustedPoints
    \/ SetProcessingStep
    \/ SetProcessedImage
    \/ SetFinalImage
    \/ SetError
    \/ ResetStore

SpecStore == InitStore /\ [][NextStore]_vars

(* C29: after any sequence of store actions currentStep is                 *)
(* deriveAppStep(processingStep): 'upload' for upload and error, 'detect'  *)
(* for detecting, detected, processing and removing-bg, 'download' for     *)
(* complete                                                                *)
C29_CurrentStepDerived ==
    store.used =>
        /\ store.processingStep \in {"upload", "error"} => store.currentStep = "upload"
        /\ store.processingStep \in {"detecting", "detected", "processing", "removing-bg"}
               => store.currentStep = "detect"
        /\ store.processingStep = "complete" => store.currentStep = "download"
        /\ store.processingStep \in ProcessingStepIds
        /\ store.currentStep = deriveAppStep(store.processingStep)

\* a detection stored over an error, the step two actions wrote directly
C29_Witness ==
    /\ store.used
    /\ store.error # NoError
    /\ store.detection # NoDetection
    /\ store.processingStep = "detected"
    /\ store.currentStep = "detect"
    /\ store.finalImageUrl # NoImage

(***************************************************************************)
(* useExtraction: detect, processSelection, extractFull and retry, with    *)
(* calls that overlap                                                      *)
(***************************************************************************)

\* calls made in one run
MaxCalls == 2

CallIds == 1..MaxCalls

\* what the fetch of /api/extract can bring: a detection, an error body, or a
\* rejection of the fetch or of res.json()
ExtractResponses ==
    {[kind |-> "success", detection |-> d, error |-> NoError] : d \in Detections}
    \cup {[kind |-> "error", detection |-> NoDetection,
           error |-> ApiError("NO_PRINT_DETECTED", TRUE)],
          [kind |-> "rejected", detection |-> NoDetection, error |-> NoError]}

\* what fileToBase64 and the fetch of /api/process can bring; "unreadable" is a
\* rejection of fileToBase64, before the fetch
HookProcessResponses ==
    {r \in ProcessResponses :
        r.error.code \in {"none", "RATE_LIMIT"} /\ r.colorPalette \in {<<>>, <<"#102030">>}
        /\ (r.kind = "success" => r.colorPalette # <<>>)}
    \cup {[kind |-> "unreadable", error |-> NoError, image |-> NoImage,
           colorPalette |-> <<>>]}

\* a call of the hook: its locals, where it waits, and what it has done; its image
\* only travels to the server (calledProcess: it fetched /api/process; ranBgRemoval: it called
\* removeBackground; outcome: how it ended)
NoCallRecord ==
    [kind |-> "none",
     at |-> "unused",
     detection |-> NoDetection,
     processed |-> NoImage,
     palette |-> <<>>,
     bgCall |-> NoBgCall,
     calledProcess |-> FALSE,
     ranBgRemoval |-> FALSE,
     outcome |-> "none"]

InFlight(call) == call.at \in {"extract", "process", "removing-bg"}

InitHook ==
    /\ pc = "hook"
    /\ imgWidth = 0 /\ imgHeight = 0
    /\ decodable = "none"
    /\ extractionApproach = "direct"
    /\ boundingBox = NoBox
    /\ perspectivePoints = NoPoints
    /\ adjustedPoints = NoPoints
    /\ extractCall = NoCall
    /\ extractArea = NoArea
    /\ processedBuffer = NoRaster
    /\ data = <<>>
    /\ topN = 0
    /\ colorPalette = <<>>
    /\ response = NoResponse
    /\ trace = <<>>
    /\ requests = NoRequests /\ limiter = NoLimiter /\ hook = NoHook
    /\ canvas = NoCanvas /\ detector = NoDetector /\ upload = NoUpload
    /\ store = initialState
    /\ session = [used |-> TRUE,
                  isLoading |-> FALSE,
                  lastImageRef |-> NoGarment,
                  calls |-> [i \in CallIds |-> NoCallRecord]]

HookFrame ==
    UNCHANGED <<pc, imgWidth, imgHeight, decodable, extractionApproach, boundingBox,
                perspectivePoints, adjustedPoints, extractCall, extractArea,
                processedBuffer, data, topN, colorPalette, response, trace,
                requests, limiter, hook, canvas, detector, upload>>

\* the calls are numbered in the order they are made
MayStart(i) ==
    /\ session.used
    /\ session.calls[i].at = "unused"
    /\ \A j \in CallIds : j < i => session.calls[j].at # "unused"

\* the catch block's code
CatchCode(kind) == IF kind = "processSelection" THEN "PROCESSING_ERROR" ELSE "GEMINI_ERROR"

FinallyKeepsLoading(s) == s

\* finally { setIsLoading(false) }
Finally(s) == [s EXCEPT !.isLoading = FALSE]

\* call i returns, and its locals are gone but for the detection it worked on
Ended(s, i, outcome) ==
    Finally([s EXCEPT !.calls[i] =
                          [NoCallRecord EXCEPT !.kind = s.calls[i].kind,
                                               !.detection = s.calls[i].detection,
                                               !.at = "ended",
                                               !.calledProcess = s.calls[i].calledProcess,
                                               !.ranBgRemoval = s.calls[i].ranBgRemoval,
                                               !.outcome = outcome]])

\* detect(image) up to its await of the fetch
DetectCall(i, image) ==
    /\ MayStart(i)
    /\ session' = [session EXCEPT
           !.isLoading = TRUE,
           !.lastImageRef = image,
           !.calls[i] = [NoCallRecord EXCEPT !.kind = "detect", !.at = "extract"]]
    /\ store' = setProcessingStep(setError(store, NoError), "detecting")
    /\ HookFrame

\* retry()
Retry ==
    \E i \in CallIds :
        /\ session.used
        /\ session.lastImageRef # NoGarment
        /\ DetectCall(i, session.lastImageRef)

Detect == \E i \in CallIds, image \in GarmentImages : DetectCall(i, image)

\* processSelection(image, detection, adjustedPoints) up to its first await;
\* adjustedPoints only travels to the server
ProcessSelectionCall ==
    \E i \in CallIds, image \in GarmentImages, detection \in Detections :
        /\ MayStart(i)
        /\ session' = [session EXCEPT
               !.isLoading = TRUE,
               !.calls[i] = [NoCallRecord EXCEPT !.kind = "processSelection",
                                                 !.at = "process",
                                                 !.detection = detection]]
        /\ store' = setProcessingStep(setError(store, NoError), "processing")
        /\ HookFrame

\* extractFull(image) up to its await of the first fetch
ExtractFullCall ==
    \E i \in CallIds, image \in GarmentImages :
        /\ MayStart(i)
        /\ session' = [session EXCEPT
               !.isLoading = TRUE,
               !.lastImageRef = image,
               !.calls[i] = [NoCallRecord EXCEPT !.kind = "extractFull",
                                                 !.at = "extract"]]
        /\ store' = setProcessingStep(setError(store, NoError), "detecting")
        /\ HookFrame

\* detect and extractFull from the answer of /api/extract: detect to its end,
\* extractFull to its end or to its next await
ExtractAnswered ==
    \E i \in CallIds, res \in ExtractResponses :
        LET call == session.calls[i]
        IN  /\ session.used
            /\ call.at = "extract"
            /\ CASE res.kind = "error" ->
                        /\ store' = setError(store, res.error)
                        /\ session' = Ended(session, i, "error")
                 [] res.kind = "rejected" ->
                        /\ store' = setError(store, ApiError(CatchCode(call.kind), TRUE))
                        /\ session' = Ended(session, i, "error")
                 [] res.kind = "success" /\ call.kind = "detect" ->
                        /\ store' = setDetection(store, res.detection)
                        /\ session' = Ended([session EXCEPT
                                                 !.calls[i].detection = res.detection],
                                            i, "detected")
                 [] res.kind = "success" /\ call.kind = "extractFull" ->
                        /\ store' = setProcessingStep(setDetection(store, res.detection),
                                                      "processing")
                        /\ session' = [session EXCEPT
                               !.calls[i].at = "process",
                               !.calls[i].detection = res.detection]
            /\ HookFrame

\* processSelection and extractFull from fileToBase64 and the answer of
\* /api/process to their end or to the await of removeBackground
ProcessAnswered ==
    \E i \in CallIds, res \in HookProcessResponses :
        LET call == session.calls[i]
            fetched == [session EXCEPT !.calls[i].calledProcess = TRUE]
        IN  /\ session.used
            /\ call.at = "process"
            /\ CASE res.kind = "unreadable" ->
                        /\ store' = setError(store, ApiError(CatchCode(call.kind), TRUE))
                        /\ session' = Ended(session, i, "error")
                 [] res.kind = "error" ->
                        /\ store' = setError(store, res.error)
                        /\ session' = Ended(fetched, i, "error")
                 [] res.kind = "rejected" ->
                        /\ store' = setError(store, ApiError(CatchCode(call.kind), TRUE))
                        /\ session' = Ended(fetched, i, "error")
                 [] res.kind = "success" ->
                        LET processedDataUrl == DataUrl(res.image)
                            shown == setProcessedImage(store, processedDataUrl)
                            got == [fetched EXCEPT !.calls[i].processed = processedDataUrl,
                                                   !.calls[i].palette = res.colorPalette]
                        IN  IF shouldSkipBgRemoval(call.detection.extractionApproach)
                            THEN /\ store' = setFinalImage(
                                                 [shown EXCEPT !.processingProgress = 100],
                                                 processedDataUrl, res.colorPalette)
                                 /\ session' = Ended(got, i, "complete")
                            ELSE /\ store' = setProcessingStep(shown, "removing-bg")
                                 /\ session' = [got EXCEPT
                                        !.calls[i].at = "removing-bg",
                                        !.calls[i].ranBgRemoval = TRUE,
                                        !.calls[i].bgCall =
                                            RemoveBackgroundCall(processedDataUrl,
                                                                 ProgressCallback)]
            /\ HookFrame

\* removeBackground settles and the call runs to its end
BackgroundSettled ==
    \E i \in CallIds :
        LET call == session.calls[i]
        IN  /\ session.used
            /\ call.at = "removing-bg"
            /\ IF SegmentationInputLoads(call.bgCall)
               THEN /\ store' = setFinalImage(store, GraftedDataUrl(call.bgCall),
                                              call.palette)
                    /\ session' = Ended(session, i, "complete")
               ELSE /\ store' = setError(store, ApiError(CatchCode(call.kind), TRUE))
                    /\ session' = Ended(session, i, "error")
            /\ HookFrame

NextHook ==
    \/ Retry
    \/ Detect
    \/ ProcessSelectionCall
    \/ ExtractFullCall
    \/ ExtractAnswered
    \/ ProcessAnswered
    \/ BackgroundSettled

SpecHook == InitHook /\ [][NextHook]_vars

(* C26: a processSelection or extractFull call runs background removal if  *)
(* and only if its detection's extractionApproach is 'perspective-correct';*)
(* for 'texture-remove' and 'direct' the final image is exactly the        *)
(* processed image /api/process returned and 'removing-bg' is never entered*)
C26_BgRemovalIffPerspectiveCorrect ==
    /\ [](session.used =>
              \A i \in CallIds :
                  LET call == session.calls[i]
                      approach == call.detection.extractionApproach
                  IN  /\ call.ranBgRemoval => approach = "perspective-correct"
                      /\ call.at = "removing-bg" => call.ranBgRemoval
                      /\ call.bgCall # NoBgCall => call.ranBgRemoval)
    /\ [][session.used =>
              /\ \A i \in CallIds :
                     LET call == session.calls[i]
                         after == session'.calls[i]
                         approach == call.detection.extractionApproach
                     IN  (call.at = "process"
                          /\ (after.at = "removing-bg" \/ after.outcome = "complete")) =>
                             /\ after.ranBgRemoval <=> approach = "perspective-correct"
                             /\ after.at = "removing-bg" <=> approach = "perspective-correct"
                             /\ approach \in {"texture-remove", "direct"} =>
                                    /\ after.outcome = "complete"
                                    /\ store'.processingStep = "complete"
                                    /\ store'.processedImageUrl.form = "dataurl"
                                    /\ store'.processedImageUrl.variant = "enhanced"
                                    /\ store'.finalImageUrl = store'.processedImageUrl
              /\ (store'.processingStep = "removing-bg"
                  /\ store.processingStep # "removing-bg") =>
                     \E i \in CallIds :
                         /\ session.calls[i].at = "process"
                         /\ session'.calls[i].at = "removing-bg"
                         /\ session.calls[i].detection.extractionApproach
                                = "perspective-correct"]_vars

\* a direct crop delivered as it came, and a perspective-correct one in
\* background removal
C26_Witness ==
    /\ session.used
    /\ session.calls[1].kind = "processSelection"
    /\ session.calls[1].detection.extractionApproach = "direct"
    /\ session.calls[1].outcome = "complete"
    /\ ~session.calls[1].ranBgRemoval
    /\ session.calls[2].kind = "extractFull"
    /\ session.calls[2].detection.extractionApproach = "perspective-correct"
    /\ session.calls[2].at = "removing-bg"
    /\ store.processingStep = "removing-bg"

(* C27: a detect call that gets an answer or a fetch failure ends with     *)
(* isLoading false and exactly one of: (a) store.detection is the returned *)
(* detection, processingStep is 'detected' and /api/process was not        *)
(* called; (b) store.error is set, processingStep is 'error' and the call  *)
(* left store.detection as it was                                          *)
C27_DetectEndsDetectedOrError ==
    /\ [](session.used =>
              \A i \in CallIds :
                  session.calls[i].kind = "detect" =>
                      /\ ~session.calls[i].calledProcess
                      /\ session.calls[i].at \in {"extract", "ended"})
    /\ [][\A i \in CallIds :
              LET call == session.calls[i]
                  after == session'.calls[i]
                  detected == /\ after.outcome = "detected"
                              /\ after.detection \in Detections
                              /\ store'.detection = after.detection
                              /\ store'.processingStep = "detected"
                              /\ ~after.calledProcess
                  failed == /\ after.outcome = "error"
                            /\ store'.error # NoError
                            /\ store'.processingStep = "error"
                            /\ store'.detection = store.detection
              IN  (session.used /\ call.kind = "detect" /\ call.at = "extract"
                   /\ after.at = "ended") =>
                      /\ ~session'.isLoading
                      /\ detected \/ failed
                      /\ ~(detected /\ failed)]_vars

\* a detection found, then a second detect call that failed and left it
C27_Witness ==
    /\ session.used
    /\ session.calls[1].kind = "detect"
    /\ session.calls[1].outcome = "detected"
    /\ session.calls[2].kind = "detect"
    /\ session.calls[2].outcome = "error"
    /\ store.detection = session.calls[1].detection
    /\ store.processingStep = "error"
    /\ ~session.isLoading

(* C30: whenever a detect, processSelection or extractFull call is in      *)
(* flight, isLoading is true                                               *)
C30_InFlightMeansLoading ==
    session.used =>
        ((\E i \in CallIds : InFlight(session.calls[i])) => session.isLoading)

====
